---------------------------- MODULE Spec2Model ----------------------------
(***************************************************************************)
(* GitLabAnalyserBot: the history-reconstruction and interval-attribution  *)
(* engine of services/GitLabService.py (calculate_metrics).                *)
(*                                                                         *)
(* Timestamps.  The code orders events by the ISO-8601 string created_at   *)
(* and then parses each string with datetime.fromisoformat.  All           *)
(* timestamps of one GitLab instance come in one format and one zone, for  *)
(* which the string order is the chronological order, so a timestamp is    *)
(* modelled by a natural number (seconds since an epoch) and a duration    *)
(* ((b - a).total_seconds()) by a difference of two such numbers.          *)
(*                                                                         *)
(* Strings.  A note body, a pattern and a username are sequences of        *)
(* one-character strings, so that Python's `in` (substring search),        *)
(* lower() and the regular expression of the assignee fallback are         *)
(* computed on characters and not assumed.  A non-ASCII character is       *)
(* written as its code point, "U+043D".                                    *)
(***************************************************************************)
EXTENDS Integers, Sequences, FiniteSets, TLC

VARIABLES
    pc,              \* "calc" before the call of calculate_metrics, "done" after it
    username,        \* target username passed to calculate_metrics
    history,         \* list returned by get_task_notes
    labels_history,  \* list returned by get_resource_label_events
    current_time,    \* datetime.now(timezone.utc) read by calculate_metrics
    task_metrics,    \* the task_metrics dictionary
    gitlab,          \* the GitLab server: what it answers to each request
    config,          \* Config: progress_step
    progress_callback, \* the progress_callback given to get_user_metrics
    flow,            \* position of the handler user_metrics and of the service under it
    all_tasks,       \* get_all_historical_user_assignments: tasks, the list get_all_tasks returned
    index,           \* index of the running loop over tasks (1-based here)
    participants,    \* participants fetched for the last task of the filter loop
    user_tasks,      \* get_all_historical_user_assignments: user_tasks
    assigned_tasks,  \* get_all_historical_user_assignments: assigned_tasks
    tasks,           \* get_user_metrics: tasks, as returned by get_all_historical_user_assignments
    tasks_with_metrics, \* get_user_metrics: tasks_with_metrics
    progress,        \* the invocations of progress_callback so far, one [text, percent] each
    requests,        \* the HTTP requests issued to GitLab so far
    shown,           \* what the handler has shown in the end
    seconds,         \* format_duration: the argument seconds
    formatted,       \* format_duration: the string returned
    directory,       \* the GitLab server's users and how it answers GET /users
    upos,            \* position of get_all_users: "idle", "loop" or "returned"
    users_page,      \* get_all_users: page
    all_users,       \* get_all_users: users
    pages_asked,     \* the page numbers passed to get_users so far, in order
    user_mapping,    \* context.user_data['user_mapping']: the ids by name
    current_user,    \* context.user_data['current_user'], None when the key is absent
    current_user_id, \* context.user_data['current_user_id'], 0 when the key is absent
    selections,      \* the pairs <<username, user id>> select_user has stored so far
    replies,         \* what the handler did with each message, in order
    metrics_calls,   \* the arguments of the calls of get_user_metrics so far, in order
    fsm_state,       \* FSMContext: the state, None or "viewing_users"
    state_data,      \* FSMContext: the data, <<>> when empty, else <<[users, current_page, ...]>>
    shown_users,     \* page_users: the users on the buttons of the list shown last
    answered,        \* number of messages the pagination handlers have answered
    session,         \* GitLabService._session: [id, closed], id 0 for None
    callers,         \* the coroutines inside an API call: where each one is
    attempts,        \* the requests made so far: who, on which session, whether it was open
    closes           \* number of calls of close() so far

\* the variables of one call of calculate_metrics
calcvars == <<pc, username, history, labels_history, current_time, task_metrics>>

\* the variables of the handler user_metrics and of the GitLab server
flowvars == <<gitlab, config, progress_callback, flow, all_tasks, index, participants,
              user_tasks, assigned_tasks, tasks, tasks_with_metrics, progress, requests, shown>>

\* the variables of one call of format_duration
fmtvars == <<seconds, formatted>>

\* the variables of one call of get_all_users and of the users the server has
usersvars == <<directory, upos, users_page, all_users, pages_asked>>

\* the variables of the bot outside the metrics of one user
\* the variables of Handler.handle_message: user_data and what the bot has done
handlervars == <<user_mapping, current_user, current_user_id, selections, replies,
                 metrics_calls>>

\* the variables of the handlers of the workers list
pagevars == <<fsm_state, state_data, shown_users, answered>>

\* the variables of the session of the singleton and of the coroutines using it
sessionvars == <<session, callers, attempts, closes>>

botvars == <<usersvars, handlervars, pagevars, sessionvars>>

vars == <<calcvars, flowvars, fmtvars, botvars>>

\* Python's None, for a label or a state (a string) and for a datetime
None == "None"
NoneTime == 0 - 1

-----------------------------------------------------------------------------
(* Bounds of the model *)

\* event timestamps are drawn from 1..MaxTime; the issue is created at 0
MaxTime == 3
\* most notes in history
MaxNotes == 2
\* most events in labels_history
MaxLabels == 2
\* the merge specification: most events in each list, and its timestamps 1..MaxMergeTime
MaxMergeLen == 3
MaxMergeTime == 2
\* the reassignment specification: most notes, and its timestamps 1..MaxReassignTime
MaxReassignNotes == 3
MaxReassignTime == 4
\* items on one page of a paginated resource (per_page is 100 in the requests)
PerPage == 2
\* most items of one resource in the specification of the fetches
MaxItems == 3
\* most issues GitLab lists
MaxIssues == 2
\* most issues in the specification of the listing, enough for three pages
MaxListed == 5
\* most whole days in a duration given to format_duration
MaxDays == 2
\* most notes in the specification of the open/closed states
MaxStateNotes == 3
\* most label events in the specification of the label changes
MaxLabelChanges == 3
\* most users the GitLab server has
MaxUsers == 5
\* most messages the bot receives
MaxMessages == 5
\* most users get_all_users returns to the workers list
MaxWorkers == 17
\* most API calls of one coroutine, and most calls of close()
MaxCalls == 2
MaxCloses == 2

-----------------------------------------------------------------------------
(* Character strings *)

UpperChars == <<"A","B","C","D","E","F","G","H","I","J","K","L","M",
                "N","O","P","Q","R","S","T","U","V","W","X","Y","Z">>
LowerChars == <<"a","b","c","d","e","f","g","h","i","j","k","l","m",
                "n","o","p","q","r","s","t","u","v","w","x","y","z">>
Digits == {"0","1","2","3","4","5","6","7","8","9"}

Range(s) == {s[i] : i \in DOMAIN s}

\* str.lower() on one character (the bodies of the model hold no upper-case
\* letter outside ASCII)
LowerChar(c) ==
    IF \E i \in DOMAIN UpperChars : UpperChars[i] = c
    THEN LowerChars[CHOOSE i \in DOMAIN UpperChars : UpperChars[i] = c]
    ELSE c

\* str.lower()
Lower(s) == [i \in DOMAIN s |-> LowerChar(s[i])]

\* the same string in capital letters
Upper(s) ==
    [i \in DOMAIN s |->
        IF \E k \in DOMAIN LowerChars : LowerChars[k] = s[i]
        THEN UpperChars[CHOOSE k \in DOMAIN LowerChars : LowerChars[k] = s[i]]
        ELSE s[i]]

\* s[i:] starts with pat (i is a 0-based offset)
MatchAt(s, pat, i) ==
    /\ i + Len(pat) <= Len(s)
    /\ \A k \in 1..Len(pat) : s[i + k] = pat[k]

\* Python: pat in s
Contains(s, pat) == \E i \in 0..Len(s) : MatchAt(s, pat, i)

\* [\s:] of the assignee regular expression
IsSepChar(c) == c \in {" ", ":"}

\* [a-zA-Z0-9_.-] of the assignee regular expression
IsNameChar(c) == c \in Range(LowerChars) \cup Range(UpperChars) \cup Digits \cup {"_", ".", "-"}

\* number of leading characters of s[i:] (0-based i) that satisfy the class
RECURSIVE RunLength(_, _, _)
RunLength(s, i, isName) ==
    IF i < Len(s) /\ (IF isName THEN IsNameChar(s[i + 1]) ELSE IsSepChar(s[i + 1]))
    THEN 1 + RunLength(s, i + 1, isName)
    ELSE 0

P_assigned_to   == <<"a", "s", "s", "i", "g", "n", "e", "d", " ", "t", "o">>
P_naznachil     == <<"U+043D", "U+0430", "U+0437", "U+043D", "U+0430", "U+0447", "U+0438", "U+043B">>
P_reassigned_to == <<"r", "e", "a", "s", "s", "i", "g", "n", "e", "d", " ", "t", "o">>
P_unassigned    == <<"u", "n", "a", "s", "s", "i", "g", "n", "e", "d", " ", "@">>

\* the alternatives (assigned to|назначил|reassigned to), in the order tried
AssignKeywords == <<P_assigned_to, P_naznachil, P_reassigned_to>>

\* group(2) of the match of
\*   (assigned to|назначил|reassigned to)[\s:]+@?([a-zA-Z0-9_.-]+)
\* that starts at offset i with alternative k, or <<>> when there is no such
\* match (group(2) of a match is never empty). The three character
\* classes are disjoint, so the greedy match is the only one.
RegexGroup2At(body, i, k) ==
    LET kw   == AssignKeywords[k]
        j    == i + Len(kw)
        seps == RunLength(body, j, FALSE)
        a    == j + seps
        at   == IF a < Len(body) /\ body[a + 1] = "@" THEN 1 ELSE 0
        n    == RunLength(body, a + at, TRUE)
    IN  IF MatchAt(body, kw, i) /\ seps >= 1 /\ n >= 1
        THEN SubSeq(body, a + at + 1, a + at + n)
        ELSE <<>>

\* re.search(...): the leftmost match, alternatives in order; its group(2), or <<>>
RegexAssignee(body) ==
    LET hits == {i \in 0..Len(body) :
                    \E k \in DOMAIN AssignKeywords : RegexGroup2At(body, i, k) # <<>>}
    IN  IF hits = {} THEN <<>>
        ELSE LET i == CHOOSE x \in hits : \A y \in hits : x <= y
                 k == CHOOSE x \in DOMAIN AssignKeywords :
                        /\ RegexGroup2At(body, i, x) # <<>>
                        /\ \A y \in DOMAIN AssignKeywords :
                              RegexGroup2At(body, i, y) # <<>> => x <= y
             IN  RegexGroup2At(body, i, k)

\* assign_patterns: the five f-strings built from the username
assign_patterns(u) ==
    { <<"a", "s", "s", "i", "g", "n", "e", "d", " ", "t", "o", " ", "@">> \o u,
      <<"a", "s", "s", "i", "g", "n", "e", "d", " ", "@">> \o u,
      P_naznachil \o <<" ", "@">> \o u,
      P_naznachil \o <<" ", "U+043D", "U+0430", " ", "@">> \o u,
      P_reassigned_to \o <<" ", "@">> \o u }

\* is_assigned after the pattern loop, the unassignment test and the regex fallback
is_assigned(rawBody, u) ==
    LET body == Lower(rawBody)
        lit  == \E p \in assign_patterns(u) : Contains(body, p)
        un   == Contains(body, P_unassigned \o u)
    IN  \/ lit
        \/ (~lit /\ ~un /\ RegexAssignee(body) = u)

\* is_unassigned
is_unassigned(rawBody, u) == Contains(Lower(rawBody), P_unassigned \o u)

\* check_task_assignee on one system note: one of the five patterns is in the
\* lowered body, or the regular expression finds the username
note_assigns(rawBody, u) ==
    \/ \E p \in assign_patterns(u) : Contains(Lower(rawBody), p)
    \/ RegexAssignee(Lower(rawBody)) = u

ClosedWords  == { <<"c", "l", "o", "s", "e", "d">>,
                  <<"U+0437", "U+0430", "U+043A", "U+0440", "U+044B", "U+0442">>,
                  <<"c", "l", "o", "s", "e", "d", " ", "i", "s", "s", "u", "e">> }
MergeWords   == { <<"m", "e", "r", "g", "e", "d">>,
                  <<"U+043C", "U+0435", "U+0440", "U+0434", "U+0436">>,
                  <<"a", "c", "c", "e", "p", "t">>,
                  <<"U+043F", "U+0440", "U+0438", "U+043D", "U+044F", "U+0442">> }
ReopenWords  == { <<"r", "e", "o", "p", "e", "n", "e", "d">>,
                  <<"U+043F", "U+043E", "U+0432", "U+0442", "U+043E", "U+0440", "U+043D", "U+043E",
                    " ", "U+043E", "U+0442", "U+043A", "U+0440", "U+044B", "U+0442">>,
                  <<"r", "e", "o", "p", "e", "n", "e", "d", " ", "i", "s", "s", "u", "e">> }

\* state_change_of without the test for the words about merging
state_change_of_MergeNotChecked(rawBody) ==
    LET body == Lower(rawBody)
    IN  IF \E w \in ClosedWords : Contains(body, w) THEN "closed"
        ELSE IF \E w \in ReopenWords : Contains(body, w) THEN "opened" ELSE None

\* the state a system note's body switches the issue to: "closed", "opened" or None
state_change_of(rawBody) ==
    LET body == Lower(rawBody)
    IN  IF \E w \in ClosedWords : Contains(body, w)
        THEN IF ~ \E w \in MergeWords : Contains(body, w) THEN "closed" ELSE None
        ELSE IF \E w \in ReopenWords : Contains(body, w) THEN "opened" ELSE None

-----------------------------------------------------------------------------
(* The usernames and note bodies of the model *)

U_bob == <<"b", "o", "b">>
U_bobby == <<"b", "o", "b", "b", "y">>

\* a username with a capital letter
U_Kim == <<"K", "i", "m">>

Usernames == {U_bob, U_bobby, U_Kim}

\* the target user of the report and another user of the instance
Bob == [id |-> 1, username |-> U_bob]
Bobby == [id |-> 2, username |-> U_bobby]

\* the user_id given to get_user_metrics along with the username
user_id == Bob.id

\* bodies of GitLab's system notes
BodyAssignedTo(u) == <<"a", "s", "s", "i", "g", "n", "e", "d", " ", "t", "o", " ", "@">> \o u
BodyUnassigned(u) == <<"u", "n", "a", "s", "s", "i", "g", "n", "e", "d", " ", "@">> \o u
BodyClosed        == <<"c", "l", "o", "s", "e", "d">>
BodyReopened      == <<"r", "e", "o", "p", "e", "n", "e", "d">>
\* a note about a merge that also holds the word closed
BodyMergedClosed  == <<"m", "e", "r", "g", "e", "d", ",", " ", "c", "l", "o", "s", "e", "d">>

Bodies ==
    {BodyClosed, BodyReopened, BodyMergedClosed}
    \cup {BodyAssignedTo(u) : u \in Usernames} \cup {BodyUnassigned(u) : u \in Usernames}
    \cup {Lower(BodyAssignedTo(U_Kim)), Upper(BodyAssignedTo(U_Kim))}

\* what the code reads off each body for each username, computed once
BodyReading ==
    [b \in Bodies |->
        [state_change  |-> state_change_of(b),
         is_assigned   |-> [u \in Usernames |-> is_assigned(b, u)],
         is_unassigned |-> [u \in Usernames |-> is_unassigned(b, u)],
         note_assigns  |-> [u \in Usernames |-> note_assigns(b, u)]]]

-----------------------------------------------------------------------------
(* calculate_metrics: sorting and merging *)

\* list.append of the stable sort: e goes after every element whose key is <= its own
RECURSIVE InsertByKey(_, _, _)
InsertByKey(sorted, e, key) ==
    IF sorted = <<>> THEN <<e>>
    ELSE IF e[key] < sorted[Len(sorted)][key]
         THEN Append(InsertByKey(SubSeq(sorted, 1, Len(sorted) - 1), e, key), sorted[Len(sorted)])
         ELSE Append(sorted, e)

\* sorted(xs, key=lambda x: x[key]): Python's sort is stable
RECURSIVE SortedBy(_, _)
SortedBy(xs, key) ==
    IF xs = <<>> THEN <<>>
    ELSE InsertByKey(SortedBy(SubSeq(xs, 1, Len(xs) - 1), key), xs[Len(xs)], key)

\* MergeFrom without the loop that drains the rest of sorted_history
RECURSIVE MergeFrom_NotesNotDrained(_, _, _, _)
MergeFrom_NotesNotDrained(sh, lh, sh_index, lh_index) ==
    IF sh_index <= Len(sh) /\ lh_index <= Len(lh)
    THEN IF sh[sh_index].created_at < lh[lh_index].created_at
         THEN <<sh[sh_index]>> \o MergeFrom_NotesNotDrained(sh, lh, sh_index + 1, lh_index)
         ELSE <<lh[lh_index]>> \o MergeFrom_NotesNotDrained(sh, lh, sh_index, lh_index + 1)
    ELSE SubSeq(lh, lh_index, Len(lh))

\* the two-pointer loop and the two draining loops, from indices sh, lh (1-based here)
RECURSIVE MergeFrom(_, _, _, _)
MergeFrom(sh, lh, sh_index, lh_index) ==
    IF sh_index <= Len(sh) /\ lh_index <= Len(lh)
    THEN IF sh[sh_index].created_at < lh[lh_index].created_at
         THEN <<sh[sh_index]>> \o MergeFrom(sh, lh, sh_index + 1, lh_index)
         ELSE <<lh[lh_index]>> \o MergeFrom(sh, lh, sh_index, lh_index + 1)
    ELSE IF sh_index <= Len(sh)
         THEN SubSeq(sh, sh_index, Len(sh))
         ELSE SubSeq(lh, lh_index, Len(lh))

\* merged_history
MergedHistory(h, lh) ==
    MergeFrom(SortedBy(h, "created_at"), SortedBy(lh, "created_at"), 1, 1)

-----------------------------------------------------------------------------
(* calculate_metrics: open/closed periods and assignment periods *)

\* event.get('system') and event.get('body'): a system note with a non-empty body
IsSystemNote(event) ==
    /\ "system" \in DOMAIN event /\ event.system
    /\ "body" \in DOMAIN event /\ event.body # <<>>

\* state_changes of the first loop over merged_history, before the sort
RECURSIVE StateChangesOf(_)
StateChangesOf(merged) ==
    IF merged = <<>> THEN <<>>
    ELSE LET event == merged[Len(merged)]
             rest  == StateChangesOf(SubSeq(merged, 1, Len(merged) - 1))
         IN  IF IsSystemNote(event) /\ BodyReading[event.body].state_change # None
             THEN Append(rest, [state |-> BodyReading[event.body].state_change,
                                time  |-> event.created_at])
             ELSE rest

\* the loop over state_changes: [periods, current_state, last_state_change]
RECURSIVE StatePeriodsLoop(_, _)
StatePeriodsLoop(state_changes, task_created_at) ==
    IF state_changes = <<>>
    THEN [periods |-> <<>>, current_state |-> "opened", last_state_change |-> task_created_at]
    ELSE LET prev == StatePeriodsLoop(SubSeq(state_changes, 1, Len(state_changes) - 1),
                                      task_created_at)
             ch   == state_changes[Len(state_changes)]
         IN  [periods |-> Append(prev.periods,
                                 [state |-> prev.current_state,
                                  start |-> prev.last_state_change,
                                  end   |-> ch.time]),
              current_state |-> ch.state,
              last_state_change |-> ch.time]

\* end_time = task_closed_at if task_closed_at else current_time
EndTime(task_closed_at, now) ==
    IF task_closed_at # NoneTime THEN task_closed_at ELSE now

\* state_periods, with the final period
StatePeriods(merged, task_created_at, end_time) ==
    LET l == StatePeriodsLoop(SortedBy(StateChangesOf(merged), "time"), task_created_at)
    IN  Append(l.periods, [state |-> l.current_state,
                           start |-> l.last_state_change,
                           end   |-> end_time])

\* the loop that extracts the assignment periods: [periods, assignment_start]
RECURSIVE AssignmentLoop(_, _)
AssignmentLoop(merged, u) ==
    IF merged = <<>> THEN [periods |-> <<>>, assignment_start |-> NoneTime]
    ELSE LET prev  == AssignmentLoop(SubSeq(merged, 1, Len(merged) - 1), u)
             event == merged[Len(merged)]
         IN  IF ~IsSystemNote(event) THEN prev
             ELSE IF BodyReading[event.body].is_assigned[u] /\ prev.assignment_start = NoneTime
                  THEN [prev EXCEPT !.assignment_start = event.created_at]
             ELSE IF BodyReading[event.body].is_unassigned[u] /\ prev.assignment_start # NoneTime
                  THEN [periods |-> Append(prev.periods,
                                           [start |-> prev.assignment_start,
                                            end   |-> event.created_at]),
                        assignment_start |-> NoneTime]
             ELSE prev

\* AssignmentPeriods without the period still active at the end
AssignmentPeriods_OpenDropped(merged, u, end_time) ==
    AssignmentLoop(merged, u).periods

\* assignment_periods, with the period still active at the end
AssignmentPeriods(merged, u, end_time) ==
    LET l == AssignmentLoop(merged, u)
    IN  IF l.assignment_start # NoneTime
        THEN Append(l.periods, [start |-> l.assignment_start, end |-> end_time])
        ELSE l.periods

\* the first period of a list that contains check_time, as <<period>>, or <<>>
FirstContaining(periods, check_time) ==
    LET hits == {i \in DOMAIN periods :
                    periods[i].start <= check_time /\ check_time <= periods[i].end}
    IN  IF hits = {} THEN <<>>
        ELSE <<periods[CHOOSE i \in hits : \A j \in hits : i <= j]>>

\* get_active_state_period: <<period>> or <<>> for None
get_active_state_period(state_periods, check_time) ==
    FirstContaining(state_periods, check_time)

\* is_in_assignment_period
is_in_assignment_period(assignment_periods, check_time) ==
    FirstContaining(assignment_periods, check_time) # <<>>

\* get_assignment_period_end: the end, or NoneTime
get_assignment_period_end(assignment_periods, check_time) ==
    LET p == FirstContaining(assignment_periods, check_time)
    IN  IF p = <<>> THEN NoneTime ELSE p[1].end

-----------------------------------------------------------------------------
(* calculate_metrics: attribution of label time *)

\* min(...) of a non-empty set of times
Min(S) == CHOOSE x \in S : \A y \in S : x <= y

TrackedLabels == {"doing", "review", "qa"}

\* RecordInterval with the doing branch writing to the review accumulators
RecordInterval_DoingAsReview(acc, start, end, event) ==
    LET entry == [start |-> start, end |-> end, duration |-> end - start, event |-> event]
    IN  IF acc.cur_label \in {"doing", "review"}
        THEN [acc EXCEPT !.review_time = @ + (end - start),
                         !.review_history = Append(@, entry)]
        ELSE IF acc.cur_label = "qa"
        THEN [acc EXCEPT !.qa_time = @ + (end - start),
                         !.qa_history = Append(@, entry)]
        ELSE acc

\* the if/elif chain on cur_label that adds the duration to the label's
\* accumulator and appends the interval to the label's history
RecordInterval(acc, start, end, event) ==
    LET entry == [start |-> start, end |-> end, duration |-> end - start, event |-> event]
    IN  IF acc.cur_label = "doing"
        THEN [acc EXCEPT !.cicle_time = @ + (end - start),
                         !.cicle_history = Append(@, entry)]
        ELSE IF acc.cur_label = "review"
        THEN [acc EXCEPT !.review_time = @ + (end - start),
                         !.review_history = Append(@, entry)]
        ELSE IF acc.cur_label = "qa"
        THEN [acc EXCEPT !.qa_time = @ + (end - start),
                         !.qa_history = Append(@, entry)]
        ELSE acc

\* start times of the closed periods that begin strictly between lo and hi
ClosedStartsBetween(state_periods, lo, hi) ==
    {state_periods[i].start : i \in {j \in DOMAIN state_periods :
        /\ state_periods[j].state = "closed"
        /\ state_periods[j].start > lo
        /\ state_periods[j].start < hi}}

\* Interrupt without the test that the interval has a positive length
Interrupt_EmptyRecorded(acc, event_time, state_period, assignment_periods) ==
    IF acc.cur_label # None /\ acc.label_start_time # NoneTime
    THEN LET assignment_end  == get_assignment_period_end(assignment_periods, acc.label_start_time)
             possible_ends ==
                 (IF assignment_end # NoneTime THEN {assignment_end} ELSE {})
                 \cup (IF state_period.state = "closed" THEN {state_period.start} ELSE {})
                 \cup {event_time}
         IN  [RecordInterval(acc, acc.label_start_time, Min(possible_ends),
                             [type |-> "interrupted", reason |-> "not_assigned_or_closed"])
                 EXCEPT !.cur_label = None, !.label_start_time = NoneTime]
    ELSE acc

\* the branch taken by an event outside an assignment period or in a closed period:
\* the label being tracked is closed at the earliest possible end and dropped
Interrupt(acc, event_time, state_period, assignment_periods) ==
    IF acc.cur_label # None /\ acc.label_start_time # NoneTime
    THEN LET assignment_end  == get_assignment_period_end(assignment_periods, acc.label_start_time)
             possible_ends ==
                 (IF assignment_end # NoneTime THEN {assignment_end} ELSE {})
                 \cup (IF state_period.state = "closed" THEN {state_period.start} ELSE {})
                 \cup {event_time}
             end_time_for_label == Min(possible_ends)
             recorded ==
                 IF end_time_for_label > acc.label_start_time
                 THEN RecordInterval(acc, acc.label_start_time, end_time_for_label,
                                     [type |-> "interrupted", reason |-> "not_assigned_or_closed"])
                 ELSE acc
         IN  [recorded EXCEPT !.cur_label = None, !.label_start_time = NoneTime]
    ELSE acc

\* LabelChange with an add that starts the new label and forgets the one before
LabelChange_PreviousForgotten(acc, event, state_period, state_periods) ==
    IF event.action = "add" /\ state_period.state = "opened"
    THEN [acc EXCEPT !.cur_label = event.label.name, !.label_start_time = event.created_at]
    ELSE IF event.action = "remove" /\ event.label.name = acc.cur_label
    THEN [acc EXCEPT !.cur_label = None, !.label_start_time = NoneTime]
    ELSE acc

\* the branch taken by an add/remove event of a tracked label while assigned and open
LabelChange(acc, event, state_period, state_periods) ==
    LET event_time == event.created_at
        label_name == event.label.name
        state_period_at_start == get_active_state_period(state_periods, acc.label_start_time)
        closed_starts == ClosedStartsBetween(state_periods, acc.label_start_time, event_time)
        actual_end_time ==
            IF /\ state_period_at_start # <<>>
               /\ state_period_at_start[1].state = "opened"
               /\ closed_starts # {}
            THEN Min({event_time, Min(closed_starts)})
            ELSE event_time
        closedPrev ==
            IF /\ acc.cur_label # None /\ acc.label_start_time # NoneTime
               /\ actual_end_time > acc.label_start_time
            THEN RecordInterval(acc, acc.label_start_time, actual_end_time, event)
            ELSE acc
    IN  IF event.action = "add" /\ state_period.state = "opened"
        THEN [closedPrev EXCEPT !.cur_label = label_name, !.label_start_time = event_time]
        ELSE IF event.action = "remove" /\ label_name = acc.cur_label
        THEN [closedPrev EXCEPT !.cur_label = None, !.label_start_time = NoneTime]
        ELSE closedPrev

\* ProcessEvent without the test of in_assignment_period
ProcessEvent_AssignmentNotChecked(acc, event, state_periods, assignment_periods) ==
    LET event_time == event.created_at
        state_period == get_active_state_period(state_periods, event_time)
    IN  IF state_period = <<>> THEN acc
        ELSE IF state_period[1].state # "opened"
        THEN Interrupt(acc, event_time, state_period[1], assignment_periods)
        ELSE IF "action" \in DOMAIN event /\ "label" \in DOMAIN event
        THEN IF event.label.name \notin TrackedLabels THEN acc
             ELSE LabelChange(acc, event, state_period[1], state_periods)
        ELSE acc

\* one iteration of the main loop over merged_history
ProcessEvent(acc, event, state_periods, assignment_periods) ==
    LET event_time == event.created_at
        in_assignment_period == is_in_assignment_period(assignment_periods, event_time)
        state_period == get_active_state_period(state_periods, event_time)
    IN  IF state_period = <<>> THEN acc
        ELSE IF ~in_assignment_period \/ state_period[1].state # "opened"
        THEN Interrupt(acc, event_time, state_period[1], assignment_periods)
        ELSE IF "action" \in DOMAIN event /\ "label" \in DOMAIN event
        THEN IF event.label.name \notin TrackedLabels THEN acc
             ELSE LabelChange(acc, event, state_period[1], state_periods)
        ELSE acc

\* the tracking variables and accumulators before the main loop
InitialAcc ==
    [cur_label |-> None, label_start_time |-> NoneTime,
     cicle_time |-> 0, cicle_history |-> <<>>,
     review_time |-> 0, review_history |-> <<>>,
     qa_time |-> 0, qa_history |-> <<>>]

\* the main loop over merged_history
RECURSIVE AttributionLoop(_, _, _)
AttributionLoop(merged, state_periods, assignment_periods) ==
    IF merged = <<>> THEN InitialAcc
    ELSE ProcessEvent(AttributionLoop(SubSeq(merged, 1, Len(merged) - 1),
                                      state_periods, assignment_periods),
                      merged[Len(merged)], state_periods, assignment_periods)

\* CloseActiveLabel without the block: a label still active at the end is dropped
CloseActiveLabel_Dropped(acc, state_periods, assignment_periods, end_time) == acc

\* a label still active after the last event is closed against end_time
CloseActiveLabel(acc, state_periods, assignment_periods, end_time) ==
    IF acc.cur_label # None /\ acc.label_start_time # NoneTime
    THEN LET assignment_end == get_assignment_period_end(assignment_periods, acc.label_start_time)
             later_closed == {i \in DOMAIN state_periods :
                                 /\ state_periods[i].start > acc.label_start_time
                                 /\ state_periods[i].state = "closed"}
             possible_ends ==
                 (IF assignment_end # NoneTime THEN {assignment_end} ELSE {})
                 \cup (IF later_closed # {} THEN {state_periods[Min(later_closed)].start} ELSE {})
                 \cup {end_time}
             first_end == Min(possible_ends)
             closed_starts == ClosedStartsBetween(state_periods, acc.label_start_time, first_end)
             actual_end_time ==
                 IF first_end > acc.label_start_time /\ closed_starts # {}
                 THEN Min({first_end, Min(closed_starts)})
                 ELSE first_end
         IN  IF actual_end_time > acc.label_start_time
             THEN RecordInterval(acc, acc.label_start_time, actual_end_time,
                                 [type |-> "ended", label |-> acc.cur_label])
             ELSE acc
    ELSE acc

\* the overlap of one assignment period with one state period, counted when opened
Overlap(a, p) ==
    LET overlap_start == IF a.start >= p.start THEN a.start ELSE p.start
        overlap_end   == IF a.end <= p.end THEN a.end ELSE p.end
    IN  IF p.state = "opened" /\ overlap_start < overlap_end
        THEN overlap_end - overlap_start
        ELSE 0

\* sum of f[i] over i in 1..n
RECURSIVE SumTo(_, _)
SumTo(f, n) == IF n = 0 THEN 0 ELSE f[n] + SumTo(f, n - 1)

\* total_open_assignment_time
TotalOpenAssignmentTime(assignment_periods, state_periods) ==
    SumTo([i \in DOMAIN assignment_periods |->
             SumTo([j \in DOMAIN state_periods |->
                      Overlap(assignment_periods[i], state_periods[j])],
                   Len(state_periods))],
          Len(assignment_periods))

\* the task_metrics dictionary after the assignments of calculate_metrics
WithResults(tm, merged_history, state_periods, assignment_periods, acc) ==
    [created_at         |-> tm.created_at,
     closed_at          |-> tm.closed_at,
     merged_history     |-> merged_history,
     cicle_time         |-> acc.cicle_time,
     cicle_history      |-> acc.cicle_history,
     review_time        |-> acc.review_time,
     review_history     |-> acc.review_history,
     qa_time            |-> acc.qa_time,
     qa_history         |-> acc.qa_history,
     state_periods      |-> state_periods,
     assignment_periods |-> assignment_periods,
     total_open_assignment_time |->
         TotalOpenAssignmentTime(assignment_periods, state_periods)]

\* the third pass and the summary, once the periods are known
WithPeriods(tm, merged_history, state_periods, assignment_periods, end_time) ==
    WithResults(tm, merged_history, state_periods, assignment_periods,
                CloseActiveLabel(
                    AttributionLoop(merged_history, state_periods, assignment_periods),
                    state_periods, assignment_periods, end_time))

\* the first and second pass, once merged_history and end_time are known
WithMergedHistory(tm, merged_history, u, end_time) ==
    WithPeriods(tm, merged_history,
                StatePeriods(merged_history, tm.created_at, end_time),
                AssignmentPeriods(merged_history, u, end_time),
                end_time)

\* calculate_metrics(history, labels_history, username, task_metrics), reading the clock as now
calculate_metrics(h, lh, u, tm, now) ==
    WithMergedHistory(tm, MergedHistory(h, lh), u, EndTime(tm.closed_at, now))

\* a created_at string that is not an ISO-8601 timestamp (as a sort key it is
\* modelled as the smallest one; where it sorts does not change who parses it)
MalformedTime == 0 - 2

\* datetime.fromisoformat(s.replace('Z', '+00:00')) raises ValueError
fromisoformat_raises(t) == t = MalformedTime

\* calculate_metrics raises instead of returning: created_at and a non-empty
\* closed_at of the issue are parsed, and the loop over merged_history that builds
\* the assignment periods parses the created_at of every event, none of them guarded
calculate_metrics_raises(h, lh, tm) ==
    \/ fromisoformat_raises(tm.created_at)
    \/ (tm.closed_at # NoneTime /\ fromisoformat_raises(tm.closed_at))
    \/ \E i \in DOMAIN h : fromisoformat_raises(h[i].created_at)
    \/ \E i \in DOMAIN lh : fromisoformat_raises(lh[i].created_at)

\* task_metrics as the raising call leaves it: merged_history is already stored
raised_metrics(h, lh, tm) ==
    [created_at |-> tm.created_at, closed_at |-> tm.closed_at,
     merged_history |-> MergedHistory(h, lh)]

-----------------------------------------------------------------------------
(* The GitLab API: paginated resources and the three per-issue fetches *)

\* what the server answers a page with when it does not answer 200
Faults == {"not_found", "server_error", "network_error"}

\* a paginated resource of the server: its items in order, and the page, if any,
\* whose request fails (fault is "none" when no page fails)
Resource(items, fault, fault_page) ==
    [items |-> items, fault |-> fault, fault_page |-> fault_page]

\* page number page of the items, PerPage to a page
PageOf(items, page) ==
    SubSeq(items, (page - 1) * PerPage + 1, Min({page * PerPage, Len(items)}))

\* the response to the GET of one page of a resource
Respond(res, page) ==
    IF res.fault # "none" /\ res.fault_page = page
    THEN [status |-> res.fault, items |-> <<>>]
    ELSE [status |-> "ok", items |-> PageOf(res.items, page)]

\* OnNotFound discarding what the earlier pages delivered
OnNotFound_DiscardsPages(all_items) == <<>>

\* if response.status == 404: break -- the function returns what it has collected
\* (the same two lines in get_task_participants and get_resource_label_events)
OnNotFound(all_items) == all_items

\* the while loop of get_task_notes from page on: 404 breaks; any other error
\* status raises in raise_for_status, a network error raises in get, and both
\* except clauses break; an empty page breaks; a short page is the last one
RECURSIVE get_task_notes_from(_, _, _)
get_task_notes_from(res, page, all_notes) ==
    LET response == Respond(res, page)
    IN  IF response.status = "not_found" THEN OnNotFound(all_notes)
        ELSE IF response.status # "ok" THEN all_notes
        ELSE IF response.items = <<>> THEN all_notes
        ELSE IF Len(response.items) < PerPage THEN all_notes \o response.items
        ELSE get_task_notes_from(res, page + 1, all_notes \o response.items)

get_task_notes(res) == get_task_notes_from(res, 1, <<>>)

\* the while loop of get_resource_label_events, the same loop on another URL
RECURSIVE get_resource_label_events_from(_, _, _)
get_resource_label_events_from(res, page, all_events) ==
    LET response == Respond(res, page)
    IN  IF response.status = "not_found" THEN OnNotFound(all_events)
        ELSE IF response.status # "ok" THEN all_events
        ELSE IF response.items = <<>> THEN all_events
        ELSE IF Len(response.items) < PerPage THEN all_events \o response.items
        ELSE get_resource_label_events_from(res, page + 1, all_events \o response.items)

get_resource_label_events(res) == get_resource_label_events_from(res, 1, <<>>)

\* the while loop of get_task_participants: it goes on until an empty page
RECURSIVE get_task_participants_from(_, _, _)
get_task_participants_from(res, page, all_participants) ==
    LET response == Respond(res, page)
    IN  IF response.status = "not_found" THEN OnNotFound(all_participants)
        ELSE IF response.status # "ok" THEN all_participants
        ELSE IF response.items = <<>> THEN all_participants
        ELSE get_task_participants_from(res, page + 1, all_participants \o response.items)

get_task_participants(res) == get_task_participants_from(res, 1, <<>>)

\* Request with every request sent as a POST
Request_Post(method, path, handler) == [method |-> "POST", path |-> path, handler |-> handler]

\* a request as the server sees it: the method, the resource, and the handler
\* of the bot under which it was issued
Request(method, path, handler) == [method |-> method, path |-> path, handler |-> handler]

-----------------------------------------------------------------------------
(* Task discovery and the progress protocol *)

\* a percent given to the callback: a Python number held as a ratio, or None
Percent(num, den) == [num |-> num, den |-> den]
NoPercent == Percent(0, 0)

\* one invocation of progress_callback(text, percent)
Call(text, percent) == [text |-> text, percent |-> percent]

\* the reserved percent of an error
Sentinel == Percent(0 - 1, 1)

\* the number of pages the issues are listed on (the header x-total-pages)
TotalPages(items) == (Len(items) + PerPage - 1) \div PerPage

\* ListingFailed returning [] without a word to the callback
ListingFailed_Silent(calls, text) == [tasks |-> <<>>, calls |-> calls]

\* the except clauses of get_all_tasks: the callback gets the message with -1 and
\* the function returns [], whatever it has loaded
ListingFailed(calls, text) ==
    [tasks |-> <<>>, calls |-> Append(calls, Call(text, Sentinel))]

\* get_all_tasks after its loop: the callback gets 100 and the tasks are returned
ListingCompleted(loaded, calls, raises_at) ==
    IF Len(calls) + 1 = raises_at
    THEN ListingFailed(Append(calls, Call("Loading completed", Percent(100, 1))),
                       "Unexpected error")
    ELSE [tasks |-> loaded,
          calls |-> Append(calls, Call("Loading completed", Percent(100, 1)))]

\* the callback after a page is loaded: a percent when the response has the
\* headers x-total-pages and x-total, None otherwise
PageLoaded(has_totals, items, page) ==
    Call("Loaded", IF has_totals THEN Percent(page * 100, TotalPages(items)) ELSE NoPercent)

\* the while loop of get_all_tasks from page on. raises_at is the number, among
\* the invocations of the callback in this call, of the one that raises (0: none)
RECURSIVE get_all_tasks_from(_, _, _, _, _, _)
get_all_tasks_from(listing, has_totals, raises_at, page, loaded, calls) ==
    LET response == Respond(listing, page)
    IN  IF response.status # "ok" THEN ListingFailed(calls, "Network error")
        ELSE IF response.items = <<>> THEN ListingCompleted(loaded, calls, raises_at)
        ELSE IF Len(calls) + 1 = raises_at
        THEN ListingFailed(Append(calls, PageLoaded(has_totals, listing.items, page)),
                           "Unexpected error")
        ELSE IF page * PerPage >= Len(listing.items)
        THEN ListingCompleted(loaded \o response.items,
                              Append(calls, PageLoaded(has_totals, listing.items, page)),
                              raises_at)
        ELSE get_all_tasks_from(listing, has_totals, raises_at, page + 1,
                                loaded \o response.items,
                                Append(calls, PageLoaded(has_totals, listing.items, page)))

\* get_all_tasks(progress_callback): [tasks, calls], the list returned and the
\* invocations of the callback
get_all_tasks(listing, has_totals, raises_at) ==
    IF raises_at = 1
    THEN ListingFailed(<<Call("Starting task loading", NoPercent)>>, "Unexpected error")
    ELSE get_all_tasks_from(listing, has_totals, raises_at, 1, <<>>,
                            <<Call("Starting task loading", NoPercent)>>)

\* user_is_participant
user_is_participant(fetched, uid) == \E i \in DOMAIN fetched : fetched[i].id = uid

\* check_task_assignee(username, ...) on the notes it fetched
check_task_assignee(u, notes) ==
    \E i \in DOMAIN notes :
        IsSystemNote(notes[i]) /\ BodyReading[notes[i].body].note_assigns[u]

\* min(99, int(((index + 1) / len(tasks)) * 100)), index counted from 1 here
LoopPercent(i, n) == Percent(Min({99, (i * 100) \div n}), 1)

-----------------------------------------------------------------------------
(* Handler.format_duration *)

\* The argument seconds is a float. The model holds it as a number of half
\* seconds, the grain at which round() has to choose between two integers.
HalfSeconds(whole, half) == 2 * whole + half

\* int(round(seconds)): Python rounds a tie to the even integer
RoundedSeconds(halves) ==
    IF halves % 2 = 0 THEN halves \div 2
    ELSE IF (halves \div 2) % 2 = 0 THEN halves \div 2
    ELSE halves \div 2 + 1

DigitChars == <<"0","1","2","3","4","5","6","7","8","9">>

\* f"{n}" for a non-negative integer
RECURSIVE str(_)
str(n) == IF n < 10 THEN <<DigitChars[n + 1]>> ELSE str(n \div 10) \o <<DigitChars[(n % 10) + 1]>>

\* " ".join(parts)
RECURSIVE Join(_)
Join(parts) ==
    IF parts = <<>> THEN <<>>
    ELSE IF Len(parts) = 1 THEN parts[1]
    ELSE parts[1] \o <<" ">> \o Join(Tail(parts))

\* hours without the reduction modulo one day
HoursOf_NotReduced(total_seconds) == total_seconds \div 3600

\* hours = (total_seconds % (24 * 3600)) // 3600
HoursOf(total_seconds) == (total_seconds % (24 * 3600)) \div 3600

\* the list parts once the four components are known
PartsOf(days, hours, minutes, secs) ==
    (IF days > 0 THEN <<str(days) \o <<"d">>>> ELSE <<>>)
    \o (IF hours > 0 THEN <<str(hours) \o <<"h">>>> ELSE <<>>)
    \o (IF minutes > 0 THEN <<str(minutes) \o <<"m">>>> ELSE <<>>)
    \o (IF secs > 0 \/ (days = 0 /\ hours = 0 /\ minutes = 0)
        THEN <<str(secs) \o <<"s">>>> ELSE <<>>)

\* the components of total_seconds and the string built from them
FormatWhole(total_seconds) ==
    Join(PartsOf(total_seconds \div (24 * 3600),
                 HoursOf(total_seconds),
                 (total_seconds % 3600) \div 60,
                 total_seconds % 60))

\* format_duration(seconds)
format_duration(halves) ==
    IF halves <= 0 THEN <<"0", "s">> ELSE FormatWhole(RoundedSeconds(halves))

-----------------------------------------------------------------------------
(* Inputs *)

\* a note of the notes API, as far as calculate_metrics reads it
Note(t, sys, body) == [created_at |-> t, system |-> sys, body |-> body]

\* an event of the resource_label_events API, as far as calculate_metrics reads it
LabelEvent(t, action, name) == [created_at |-> t, action |-> action, label |-> [name |-> name]]

Times == 1..MaxTime

\* every sequence over S of length at most n
SeqsUpTo(S, n) == UNION {[1..k -> S] : k \in 0..n}

\* the system notes of an issue's activity about the target user and the issue's state
ActivityNotes(u) ==
    {Note(t, TRUE, b) : t \in Times,
                        b \in {BodyAssignedTo(u), BodyUnassigned(u), BodyClosed, BodyReopened}}

\* add and remove events of the tracked labels
TrackedLabelEvents ==
    {LabelEvent(t, a, l) : t \in Times, a \in {"add", "remove"}, l \in TrackedLabels}

\* the task_metrics dictionary get_task_metrics passes in: the issue was created at 0
\* and is open (closed_at empty) or was closed at some time
TaskFields == {[created_at |-> 0, closed_at |-> c] : c \in {NoneTime} \cup Times}

\* a GitLab without issues
NoGitLab ==
    [listing |-> Resource(<<>>, "none", 0), has_totals |-> FALSE,
     participants |-> <<>>, notes |-> <<>>, label_events |-> <<>>]

\* the locals of the handler user_metrics and of the service before it starts
\* get_all_users has not been called
NoUsers ==
    /\ directory = [items |-> <<>>, page_zero |-> "first_page", fault_page |-> 0 - 1]
    /\ upos = "idle" /\ users_page = 0 /\ all_users = <<>> /\ pages_asked = <<>>

\* no message has been handled: user_data is empty
NoMessages ==
    /\ user_mapping = {}
    /\ current_user = None /\ current_user_id = 0
    /\ selections = {} /\ replies = <<>> /\ metrics_calls = <<>>

\* the workers list has not been opened
NoPages ==
    /\ fsm_state = None /\ state_data = <<>> /\ shown_users = <<>> /\ answered = 0

\* the coroutines that call the API of the singleton
Callers == {"a", "b"}

\* GitLabService.__init__: self._session = None, and no coroutine inside a call
NoSession ==
    /\ session = [id |-> 0, closed |-> FALSE]
    /\ callers = [c \in Callers |-> [at |-> "idle", calls |-> 0]]
    /\ attempts = {}
    /\ closes = 0

\* the bot outside the metrics of one user is idle
NoBot == NoUsers /\ NoMessages /\ NoPages /\ NoSession

FlowLocalsInit ==
    /\ all_tasks = <<>> /\ index = 1 /\ participants = <<>>
    /\ user_tasks = <<>> /\ assigned_tasks = <<>>
    /\ tasks = <<>> /\ tasks_with_metrics = <<>>
    /\ progress = <<>> /\ requests = {} /\ shown = None
    /\ seconds = 0 /\ formatted = <<>>
    /\ NoBot

\* no handler runs
NoFlow ==
    /\ gitlab = NoGitLab
    /\ config = [progress_step |-> 1]
    /\ progress_callback = "update_status"
    /\ flow = "idle"
    /\ FlowLocalsInit

-----------------------------------------------------------------------------
(* Specification: one call of calculate_metrics on any bounded input *)

Init ==
    /\ NoFlow
    /\ pc = "calc"
    /\ username = U_bob
    /\ history \in SeqsUpTo(ActivityNotes(U_bob), MaxNotes)
    /\ labels_history \in SeqsUpTo(TrackedLabelEvents, MaxLabels)
    /\ current_time = MaxTime + 1
    /\ task_metrics \in TaskFields

\* task_metrics = await self.calculate_metrics(history, labels_history, username, task_metrics)
CalculateMetrics ==
    /\ pc = "calc"
    /\ IF calculate_metrics_raises(history, labels_history, task_metrics)
       THEN /\ task_metrics' = raised_metrics(history, labels_history, task_metrics)
            /\ pc' = "raised"
       ELSE /\ task_metrics' = calculate_metrics(history, labels_history, username,
                                                 task_metrics, current_time)
            /\ pc' = "done"
    /\ UNCHANGED <<username, history, labels_history, current_time>>
    /\ UNCHANGED flowvars
    /\ UNCHANGED <<fmtvars, botvars>>

Next == CalculateMetrics

Spec == Init /\ [][Next]_vars

-----------------------------------------------------------------------------
(* Specification of the merge: longer lists, in any order, over few timestamps *)

MergeNotes ==
    {Note(t, TRUE, b) : t \in 1..MaxMergeTime, b \in {BodyClosed, BodyReopened}}

MergeLabelEvents ==
    {LabelEvent(t, a, "doing") : t \in 1..MaxMergeTime, a \in {"add", "remove"}}

InitMerge ==
    /\ NoFlow
    /\ pc = "calc"
    /\ username = U_bob
    /\ history \in SeqsUpTo(MergeNotes, MaxMergeLen)
    /\ labels_history \in SeqsUpTo(MergeLabelEvents, MaxMergeLen)
    /\ current_time = MaxMergeTime + 1
    /\ task_metrics = [created_at |-> 0, closed_at |-> NoneTime]

SpecMerge == InitMerge /\ [][Next]_vars

-----------------------------------------------------------------------------
(* Specification of reassignment: an open issue whose assignee changes up to     *)
(* MaxReassignNotes times while the label doing is added and removed             *)

ReassignNotes ==
    {Note(t, TRUE, b) : t \in 1..MaxReassignTime,
                        b \in {BodyAssignedTo(U_bob), BodyUnassigned(U_bob)}}

DoingEvents ==
    {LabelEvent(t, a, "doing") : t \in 1..MaxReassignTime, a \in {"add", "remove"}}

InitReassign ==
    /\ NoFlow
    /\ pc = "calc"
    /\ username = U_bob
    /\ history \in SeqsUpTo(ReassignNotes, MaxReassignNotes)
    /\ labels_history \in SeqsUpTo(DoingEvents, MaxLabels)
    /\ current_time = MaxReassignTime + 1
    /\ task_metrics = [created_at |-> 0, closed_at |-> NoneTime]

SpecReassign == InitReassign /\ [][Next]_vars

-----------------------------------------------------------------------------
(* Specification of a recomputation: calculate_metrics is called a second time on  *)
(* the same notes, label events, username and issue fields, at a later reading of  *)
(* the clock (every report is recomputed from scratch)                             *)

\* the task_metrics dictionary get_task_metrics builds anew for the second call
IssueFields(tm) == [created_at |-> tm.created_at, closed_at |-> tm.closed_at]

Recalculate ==
    /\ pc = "done"
    /\ current_time' \in current_time..(current_time + 1)
    /\ task_metrics' = calculate_metrics(history, labels_history, username,
                                         IssueFields(task_metrics), current_time')
    /\ pc' = "again"
    /\ UNCHANGED <<username, history, labels_history>>
    /\ UNCHANGED flowvars
    /\ UNCHANGED <<fmtvars, botvars>>

NextTwice == CalculateMetrics \/ Recalculate

SpecTwice == InitReassign /\ [][NextTwice]_vars

-----------------------------------------------------------------------------
(* Specification of malformed timestamps: the created_at of a note or of a label   *)
(* event may be a string that is not a timestamp                                   *)

MalformedNotes ==
    {Note(t, TRUE, b) : t \in Times \cup {MalformedTime},
                        b \in {BodyAssignedTo(U_bob), BodyClosed}}

MalformedLabelEvents ==
    {LabelEvent(t, a, "doing") : t \in Times \cup {MalformedTime}, a \in {"add", "remove"}}

InitMalformed ==
    /\ NoFlow
    /\ pc = "calc"
    /\ username = U_bob
    /\ history \in SeqsUpTo(MalformedNotes, MaxNotes)
    /\ labels_history \in SeqsUpTo(MalformedLabelEvents, MaxLabels)
    /\ current_time = MaxTime + 1
    /\ task_metrics = [created_at |-> 0, closed_at |-> NoneTime]

SpecMalformed == InitMalformed /\ [][Next]_vars

-----------------------------------------------------------------------------
(* Specification of the fetches: the participants, the notes and the label events  *)
(* of one issue are fetched from a server that may fail on any page                *)

\* a loop requests the page: the first one always, a later one when the pages
\* before it were full (a loop that stops at a short page) or not empty (a loop
\* that stops at an empty page)
PageRequested(items, page, stops_at_short_page) ==
    \/ page = 1
    \/ (stops_at_short_page /\ Len(items) >= (page - 1) * PerPage)
    \/ (~stops_at_short_page /\ Len(items) > (page - 2) * PerPage)

\* the resources that hold one of the lists and fail on no page or on a page the
\* loop requests
Resources(Lists, stops_at_short_page) ==
    {Resource(l, "none", 0) : l \in Lists}
    \cup {r \in {Resource(l, f, p) : l \in Lists, f \in Faults,
                                     p \in 1..(MaxItems \div PerPage + 2)} :
             PageRequested(r.items, r.fault_page, stops_at_short_page)}

\* the lists of the first n items, n up to MaxItems
FetchedParticipantLists == {[k \in 1..n |-> [id |-> k]] : n \in 0..MaxItems}
FetchedNoteLists ==
    {[k \in 1..n |-> Note(k, TRUE, IF k % 2 = 1 THEN BodyClosed ELSE BodyReopened)] :
        n \in 0..MaxItems}
FetchedLabelEventLists ==
    {[k \in 1..n |-> LabelEvent(k, IF k % 2 = 1 THEN "add" ELSE "remove", "doing")] :
        n \in 0..MaxItems}

InitFetch ==
    /\ pc = "idle"
    /\ username = U_bob
    /\ history = <<>>
    /\ labels_history = <<>>
    /\ current_time = MaxTime + 1
    /\ task_metrics = [created_at |-> 0, closed_at |-> NoneTime]
    /\ \E p \in Resources(FetchedParticipantLists, FALSE),
          n \in Resources(FetchedNoteLists, TRUE),
          l \in Resources(FetchedLabelEventLists, TRUE) :
          gitlab = [NoGitLab EXCEPT !.participants = <<p>>, !.notes = <<n>>,
                                    !.label_events = <<l>>]
    /\ config = [progress_step |-> 1]
    /\ progress_callback = "update_status"
    /\ flow = "fetch_participants"
    /\ FlowLocalsInit

\* participants = await self.get_task_participants(project_id, task_iid)
FetchParticipants ==
    /\ flow = "fetch_participants"
    /\ participants' = get_task_participants(gitlab.participants[1])
    /\ requests' = requests \cup {Request("GET", "participants", "user_metrics")}
    /\ flow' = "fetch_notes"
    /\ UNCHANGED <<calcvars, gitlab, config, progress_callback, all_tasks, index,
                   user_tasks, assigned_tasks, tasks, tasks_with_metrics, progress, shown>>
    /\ UNCHANGED <<fmtvars, botvars>>

\* history = await self.get_task_notes(...)
FetchNotes ==
    /\ flow = "fetch_notes"
    /\ history' = get_task_notes(gitlab.notes[1])
    /\ requests' = requests \cup {Request("GET", "notes", "user_metrics")}
    /\ flow' = "fetch_label_events"
    /\ UNCHANGED <<pc, username, labels_history, current_time, task_metrics>>
    /\ UNCHANGED <<gitlab, config, progress_callback, all_tasks, index, participants,
                   user_tasks, assigned_tasks, tasks, tasks_with_metrics, progress, shown>>
    /\ UNCHANGED <<fmtvars, botvars>>

\* labels_history = await self.get_resource_label_events(...)
FetchLabelEvents ==
    /\ flow = "fetch_label_events"
    /\ labels_history' = get_resource_label_events(gitlab.label_events[1])
    /\ requests' = requests \cup {Request("GET", "resource_label_events", "user_metrics")}
    /\ flow' = "fetched"
    /\ UNCHANGED <<pc, username, history, current_time, task_metrics>>
    /\ UNCHANGED <<gitlab, config, progress_callback, all_tasks, index, participants,
                   user_tasks, assigned_tasks, tasks, tasks_with_metrics, progress, shown>>
    /\ UNCHANGED <<fmtvars, botvars>>

NextFetch == FetchParticipants \/ FetchNotes \/ FetchLabelEvents

SpecFetch == InitFetch /\ [][NextFetch]_vars

-----------------------------------------------------------------------------
(* The handler user_metrics: get_user_metrics under it, step by step *)

\* whether an invocation of the callback can raise: update_status catches whatever
\* sending the status raises, a callback without that guard lets it out
MayRaise(cb) == IF cb = "update_status" THEN {FALSE} ELSE BOOLEAN

\* the outer except clause of get_all_historical_user_assignments: the callback
\* gets the message with -1 and [] is returned to get_user_metrics, unless this
\* invocation raises too, and then the exception leaves get_user_metrics
HistoricalFailed(called) ==
    /\ progress' = Append(called, Call("Unexpected error in get_all_historical_user_assignments",
                                       Sentinel))
    /\ tasks' = <<>>
    /\ \E raises_again \in MayRaise(progress_callback) :
          flow' = IF raises_again THEN "raised" ELSE "metrics"
    /\ index' = 1

\* user_metrics calls get_user_metrics, which calls
\* get_all_historical_user_assignments, which announces the listing
StartUserMetrics ==
    /\ flow = "idle"
    /\ \E raises \in MayRaise(progress_callback) :
          IF raises
          THEN HistoricalFailed(Append(progress, Call("Fetching all tasks", NoPercent)))
          ELSE /\ progress' = Append(progress, Call("Fetching all tasks", NoPercent))
               /\ flow' = "list"
               /\ UNCHANGED <<tasks, index>>
    /\ UNCHANGED <<calcvars, gitlab, config, progress_callback, all_tasks, participants,
                   user_tasks, assigned_tasks, tasks_with_metrics, requests, shown>>
    /\ UNCHANGED <<fmtvars, botvars>>

\* tasks = await self.get_all_tasks(progress_callback=progress_callback)
GetAllTasks ==
    /\ flow = "list"
    /\ \E raises_at \in IF progress_callback = "update_status" THEN {0}
                         ELSE 0..(TotalPages(gitlab.listing.items) + 2) :
          /\ all_tasks' = get_all_tasks(gitlab.listing, gitlab.has_totals, raises_at).tasks
          /\ progress' = progress
                           \o get_all_tasks(gitlab.listing, gitlab.has_totals, raises_at).calls
          /\ requests' = IF raises_at = 1 THEN requests
                         ELSE requests \cup {Request("GET", "issues", "user_metrics")}
    /\ flow' = "filter"
    /\ index' = 1
    /\ UNCHANGED <<calcvars, gitlab, config, progress_callback, participants,
                   user_tasks, assigned_tasks, tasks, tasks_with_metrics, shown>>
    /\ UNCHANGED <<fmtvars, botvars>>

\* one iteration of the loop that keeps the tasks the user is a participant of; an
\* exception of the callback is caught by the except clause of the iteration
FilterTask ==
    /\ flow = "filter"
    /\ index <= Len(all_tasks)
    /\ participants' = get_task_participants(gitlab.participants[all_tasks[index].id])
    /\ requests' = requests \cup {Request("GET", "participants", "user_metrics")}
    /\ user_tasks' = IF user_is_participant(participants', user_id)
                     THEN Append(user_tasks, all_tasks[index])
                     ELSE user_tasks
    /\ progress' = IF (index - 1) % config.progress_step = 0
                   THEN Append(progress, Call("Filtering tasks",
                                              LoopPercent(index, Len(all_tasks))))
                   ELSE progress
    /\ index' = index + 1
    /\ UNCHANGED <<calcvars, gitlab, config, progress_callback, flow, all_tasks,
                   assigned_tasks, tasks, tasks_with_metrics, shown>>
    /\ UNCHANGED <<fmtvars, botvars>>

\* after the loop: the callback gets 100 and the second loop starts
FilterDone ==
    /\ flow = "filter"
    /\ index > Len(all_tasks)
    /\ \E raises \in MayRaise(progress_callback) :
          IF raises
          THEN HistoricalFailed(Append(progress, Call("Found tasks", Percent(100, 1))))
          ELSE /\ progress' = Append(progress, Call("Found tasks", Percent(100, 1)))
               /\ flow' = "check"
               /\ index' = 1
               /\ UNCHANGED tasks
    /\ UNCHANGED <<calcvars, gitlab, config, progress_callback, all_tasks, participants,
                   user_tasks, assigned_tasks, tasks_with_metrics, requests, shown>>
    /\ UNCHANGED <<fmtvars, botvars>>

\* one iteration of the loop that keeps the tasks assigned to the user now
\* (assignee_id) or by a system note (check_task_assignee)
CheckTask ==
    /\ flow = "check"
    /\ index <= Len(user_tasks)
    /\ IF user_tasks[index].assignee_id = user_id
       THEN /\ assigned_tasks' = Append(assigned_tasks, user_tasks[index])
            /\ UNCHANGED requests
       ELSE /\ assigned_tasks' =
                   IF check_task_assignee(username,
                                          get_task_notes(gitlab.notes[user_tasks[index].id]))
                   THEN Append(assigned_tasks, user_tasks[index])
                   ELSE assigned_tasks
            /\ requests' = requests \cup {Request("GET", "notes", "user_metrics")}
    /\ IF (index - 1) % config.progress_step = 0
       THEN \E raises \in MayRaise(progress_callback) :
               IF raises
               THEN HistoricalFailed(Append(progress, Call("Checking filtered tasks",
                                                           LoopPercent(index, Len(user_tasks)))))
               ELSE /\ progress' = Append(progress, Call("Checking filtered tasks",
                                                         LoopPercent(index, Len(user_tasks))))
                    /\ index' = index + 1
                    /\ UNCHANGED <<flow, tasks>>
       ELSE /\ index' = index + 1
            /\ UNCHANGED <<progress, flow, tasks>>
    /\ UNCHANGED <<calcvars, gitlab, config, progress_callback, all_tasks, participants,
                   user_tasks, tasks_with_metrics, shown>>
    /\ UNCHANGED <<fmtvars, botvars>>

\* after the loop: the callback gets 100 and assigned_tasks is returned
CheckDone ==
    /\ flow = "check"
    /\ index > Len(user_tasks)
    /\ \E raises \in MayRaise(progress_callback) :
          IF raises
          THEN HistoricalFailed(Append(progress, Call("Loading completed", Percent(100, 1))))
          ELSE /\ progress' = Append(progress, Call("Loading completed", Percent(100, 1)))
               /\ tasks' = assigned_tasks
               /\ flow' = "metrics"
               /\ index' = 1
    /\ UNCHANGED <<calcvars, gitlab, config, progress_callback, all_tasks, participants,
                   user_tasks, assigned_tasks, tasks_with_metrics, requests, shown>>
    /\ UNCHANGED <<fmtvars, botvars>>

\* the task_metrics dictionary get_task_metrics builds from the task
TaskFieldsOf(task) == [created_at |-> task.created_at, closed_at |-> task.closed_at]

\* one iteration of the loop of get_user_metrics: get_task_metrics fetches the notes
\* and the label events and calls calculate_metrics; nothing catches what it raises
TaskMetrics ==
    /\ flow = "metrics"
    /\ index <= Len(tasks)
    /\ history' = get_task_notes(gitlab.notes[tasks[index].id])
    /\ labels_history' = get_resource_label_events(gitlab.label_events[tasks[index].id])
    /\ requests' = requests \cup {Request("GET", "notes", "user_metrics"),
                                  Request("GET", "resource_label_events", "user_metrics")}
    /\ IF calculate_metrics_raises(history', labels_history', TaskFieldsOf(tasks[index]))
       THEN /\ task_metrics' = raised_metrics(history', labels_history',
                                              TaskFieldsOf(tasks[index]))
            /\ flow' = "raised"
            /\ UNCHANGED <<tasks_with_metrics, progress, index>>
       ELSE /\ task_metrics' = calculate_metrics(history', labels_history', username,
                                                 TaskFieldsOf(tasks[index]), current_time)
            /\ tasks_with_metrics' = Append(tasks_with_metrics, task_metrics')
            /\ IF (index - 1) % config.progress_step = 0
               THEN /\ progress' = Append(progress, Call("Fetching tasks metrics",
                                                         Percent(index * 100, Len(tasks))))
                    /\ \E raises \in MayRaise(progress_callback) :
                          flow' = IF raises THEN "raised" ELSE flow
               ELSE UNCHANGED <<progress, flow>>
            /\ index' = index + 1
    /\ UNCHANGED <<pc, username, current_time>>
    /\ UNCHANGED <<gitlab, config, progress_callback, all_tasks, participants,
                   user_tasks, assigned_tasks, tasks, shown>>
    /\ UNCHANGED <<fmtvars, botvars>>

\* after the loop: the callback gets 100 and tasks_with_metrics is returned
MetricsDone ==
    /\ flow = "metrics"
    /\ index > Len(tasks)
    /\ progress' = Append(progress, Call("Fetching tasks metrics", Percent(100, 1)))
    /\ \E raises \in MayRaise(progress_callback) :
          flow' = IF raises THEN "raised" ELSE "returned"
    /\ UNCHANGED <<calcvars, gitlab, config, progress_callback, all_tasks, index, participants,
                   user_tasks, assigned_tasks, tasks, tasks_with_metrics, requests, shown>>
    /\ UNCHANGED <<fmtvars, botvars>>

\* the invocations of update_status while the report over n tasks is generated
ReportCalls(n) ==
    <<Call("Generating report", Percent(0, 1))>>
    \o SelectSeq([k \in 1..n |-> Call("Generating report with metrics", Percent(k * 100, n))],
                 LAMBDA c : ((c.percent.num \div 100) - 1) % 5 = 0)
    \o <<Call("Finalizing report", Percent(95, 1)), Call("Report generated", Percent(100, 1))>>

\* user_metrics with the list get_user_metrics returned: no tasks, or the report,
\* or the error message when sending the document raises
Report ==
    /\ flow = "returned"
    /\ IF tasks_with_metrics = <<>>
       THEN /\ shown' = "no_tasks"
            /\ UNCHANGED progress
       ELSE /\ progress' = progress \o ReportCalls(Len(tasks_with_metrics))
            /\ \E delivered \in BOOLEAN : shown' = IF delivered THEN "report" ELSE "error"
    /\ flow' = "finished"
    /\ UNCHANGED <<calcvars, gitlab, config, progress_callback, all_tasks, index, participants,
                   user_tasks, assigned_tasks, tasks, tasks_with_metrics, requests>>
    /\ UNCHANGED <<fmtvars, botvars>>

\* the except clause of user_metrics: whatever get_user_metrics raised is shown
ReportError ==
    /\ flow = "raised"
    /\ shown' = "error"
    /\ flow' = "finished"
    /\ UNCHANGED <<calcvars, gitlab, config, progress_callback, all_tasks, index, participants,
                   user_tasks, assigned_tasks, tasks, tasks_with_metrics, progress, requests>>
    /\ UNCHANGED <<fmtvars, botvars>>

\* the handler create_task reaches create_new_task, which posts the new issue;
\* the handlers of the bot run one after the other
CreateTask ==
    /\ flow \in {"idle", "finished"}
    /\ Request("POST", "issues", "create_task") \notin requests
    /\ requests' = requests \cup {Request("POST", "issues", "create_task")}
    /\ UNCHANGED <<calcvars, gitlab, config, progress_callback, flow, all_tasks, index,
                   participants, user_tasks, assigned_tasks, tasks, tasks_with_metrics,
                   progress, shown>>
    /\ UNCHANGED <<fmtvars, botvars>>

NextFlow ==
    \/ StartUserMetrics \/ GetAllTasks
    \/ FilterTask \/ FilterDone
    \/ CheckTask \/ CheckDone
    \/ TaskMetrics \/ MetricsDone
    \/ Report \/ ReportError
    \/ CreateTask

\* an issue as /api/v4/issues lists it
Issue(id, assignee_id) ==
    [id |-> id, assignee_id |-> assignee_id, created_at |-> 0, closed_at |-> NoneTime]

\* get_all_tasks requests a page when it is the first one or the page before it
\* carried a link to it
ListingPageRequested(items, page) == page = 1 \/ (page - 1) * PerPage < Len(items)

\* the listings of the issues: without a fault, or failing on a page that is requested
Listings(items) ==
    {Resource(items, "none", 0)}
    \cup {r \in {Resource(items, f, p) : f \in Faults, p \in 1..(TotalPages(items) + 1)} :
             ListingPageRequested(items, r.fault_page)}

\* a listing of up to MaxListed issues assigned to the user, without history
InitListing ==
    /\ pc = "idle"
    /\ username = U_bob
    /\ history = <<>>
    /\ labels_history = <<>>
    /\ current_time = MaxTime + 1
    /\ task_metrics = [created_at |-> 0, closed_at |-> NoneTime]
    /\ \E n \in 0..MaxListed :
          \E listing \in Listings([k \in 1..n |-> Issue(k, Bob.id)]), has_totals \in BOOLEAN :
             gitlab = [listing |-> listing,
                       has_totals |-> has_totals,
                       participants |-> [k \in 1..n |-> Resource(<<Bob>>, "none", 0)],
                       notes |-> [k \in 1..n |-> Resource(<<>>, "none", 0)],
                       label_events |-> [k \in 1..n |-> Resource(<<>>, "none", 0)]]
    /\ config = [progress_step |-> 1]
    /\ progress_callback \in {"update_status", "unguarded"}
    /\ flow = "idle"
    /\ FlowLocalsInit

SpecListing == InitListing /\ [][NextFlow]_vars

\* what GitLab holds about one issue: who it is assigned to now, its participants
\* (the assignee is one of them; their request may fail), its notes and its
\* label events
IssueWorlds ==
  {w \in
    [assignee_id : {Bob.id, Bobby.id},
     participants : {Resource(<<Bob, Bobby>>, "none", 0), Resource(<<Bobby>>, "none", 0),
                     Resource(<<Bob, Bobby>>, "network_error", 1)},
     notes : {Resource(<<>>, "none", 0),
              Resource(<<Note(1, TRUE, BodyAssignedTo(U_bob))>>, "none", 0),
              Resource(<<Note(1, TRUE, BodyAssignedTo(U_bobby))>>, "none", 0),
              Resource(<<Note(1, TRUE, BodyAssignedTo(U_bob))>>, "not_found", 1),
              Resource(<<Note(MalformedTime, TRUE, BodyAssignedTo(U_bob))>>, "none", 0)},
     label_events : {Resource(<<LabelEvent(2, "add", "doing")>>, "none", 0)}] :
    \E k \in DOMAIN w.participants.items : w.participants.items[k].id = w.assignee_id}

\* up to MaxIssues issues, each with its world, listed on one page
InitFlow ==
    /\ pc = "idle"
    /\ username = U_bob
    /\ history = <<>>
    /\ labels_history = <<>>
    /\ current_time = MaxTime + 1
    /\ task_metrics = [created_at |-> 0, closed_at |-> NoneTime]
    /\ \E worlds \in SeqsUpTo(IssueWorlds, MaxIssues) :
          \E fault \in {"none", "network_error"} :
             gitlab = [listing |-> Resource([k \in DOMAIN worlds |->
                                               Issue(k, worlds[k].assignee_id)], fault, 1),
                       has_totals |-> TRUE,
                       participants |-> [k \in DOMAIN worlds |-> worlds[k].participants],
                       notes |-> [k \in DOMAIN worlds |-> worlds[k].notes],
                       label_events |-> [k \in DOMAIN worlds |-> worlds[k].label_events]]
    /\ config = [progress_step |-> 1]
    /\ progress_callback \in {"update_status", "unguarded"}
    /\ flow = "idle"
    /\ FlowLocalsInit

SpecFlow == InitFlow /\ [][NextFlow]_vars

-----------------------------------------------------------------------------
(* Specification of format_duration: one call on a duration of up to MaxDays days *)

\* the values of a component below its modulus: the least two and the greatest
ComponentValues(modulus) == {0, 1, modulus - 1}

\* durations whose components take those values, whole or with half a second more
Durations ==
    {HalfSeconds(((d * 24 + h) * 60 + m) * 60 + s, half) :
        d \in 0..MaxDays, h \in ComponentValues(24), m \in ComponentValues(60),
        s \in ComponentValues(60), half \in {0, 1}}

InitFormat ==
    /\ pc = "format"
    /\ username = U_bob
    /\ history = <<>>
    /\ labels_history = <<>>
    /\ current_time = MaxTime + 1
    /\ task_metrics = [created_at |-> 0, closed_at |-> NoneTime]
    /\ gitlab = NoGitLab
    /\ config = [progress_step |-> 1]
    /\ progress_callback = "update_status"
    /\ flow = "idle"
    /\ all_tasks = <<>> /\ index = 1 /\ participants = <<>>
    /\ user_tasks = <<>> /\ assigned_tasks = <<>>
    /\ tasks = <<>> /\ tasks_with_metrics = <<>>
    /\ progress = <<>> /\ requests = {} /\ shown = None
    /\ seconds \in Durations
    /\ formatted = <<>>
    /\ NoBot

\* self.format_duration(seconds)
FormatDuration ==
    /\ pc = "format"
    /\ formatted' = format_duration(seconds)
    /\ pc' = "formatted"
    /\ UNCHANGED <<username, history, labels_history, current_time, task_metrics>>
    /\ UNCHANGED <<flowvars, seconds, botvars>>

SpecFormat == InitFormat /\ [][FormatDuration]_vars

-----------------------------------------------------------------------------
(* Specification of the users: the target is bob or Kim, and the issue is         *)
(* assigned to one or the other, the note about Kim written in any letter case    *)

UserNotes ==
    {Note(t, TRUE, b) : t \in Times,
                        b \in {BodyAssignedTo(U_bob), BodyAssignedTo(U_bobby),
                               BodyAssignedTo(U_Kim),
                               Lower(BodyAssignedTo(U_Kim)), Upper(BodyAssignedTo(U_Kim))}}

InitUsers ==
    /\ NoFlow
    /\ pc = "calc"
    /\ username \in {U_bob, U_Kim}
    /\ history \in SeqsUpTo(UserNotes, MaxNotes)
    /\ labels_history
          \in SeqsUpTo({LabelEvent(t, a, "doing") : t \in Times, a \in {"add", "remove"}},
                       MaxLabels)
    /\ current_time = MaxTime + 1
    /\ task_metrics = [created_at |-> 0, closed_at |-> NoneTime]

SpecUsers == InitUsers /\ [][Next]_vars

-----------------------------------------------------------------------------
(* Specification of the open/closed states: up to MaxStateNotes notes that close   *)
(* or reopen the issue, or only look as if they did                                *)

StateNotes ==
    {Note(t, TRUE, b) : t \in Times,
                        b \in {BodyClosed, BodyReopened, BodyMergedClosed,
                               BodyAssignedTo(U_bob)}}
    \cup {Note(t, FALSE, BodyClosed) : t \in Times}

InitStates ==
    /\ NoFlow
    /\ pc = "calc"
    /\ username = U_bob
    /\ history \in SeqsUpTo(StateNotes, MaxStateNotes)
    /\ labels_history \in SeqsUpTo({LabelEvent(t, "add", "doing") : t \in Times}, 1)
    /\ current_time = MaxTime + 1
    /\ task_metrics = [created_at |-> 0, closed_at |-> NoneTime]

SpecStates == InitStates /\ [][Next]_vars

-----------------------------------------------------------------------------
(* Specification of the label changes: an open issue, assigned to the target at   *)
(* most once, with up to MaxLabelChanges add/remove events of the tracked labels   *)

InitLabels ==
    /\ NoFlow
    /\ pc = "calc"
    /\ username = U_bob
    /\ history \in SeqsUpTo({Note(t, TRUE, BodyAssignedTo(U_bob)) : t \in Times}, 1)
    /\ labels_history \in SeqsUpTo(TrackedLabelEvents, MaxLabelChanges)
    /\ current_time = MaxTime + 1
    /\ task_metrics = [created_at |-> 0, closed_at |-> NoneTime]

SpecLabels == InitLabels /\ [][Next]_vars

-----------------------------------------------------------------------------
(* get_users and get_all_users *)

\* calculate_metrics and format_duration are not running
NoCalc ==
    /\ pc = "idle"
    /\ username = U_bob
    /\ history = <<>>
    /\ labels_history = <<>>
    /\ current_time = MaxTime + 1
    /\ task_metrics = [created_at |-> 0, closed_at |-> NoneTime]

\* the active users of the server, n of them
UsersOf(n) == [i \in 1..n |-> [id |-> i]]

\* How the server answers GET /users?page=0 is not in this repository: it answers
\* with its first page, or with an error status.
PageZeroAnswers == {"first_page", "error"}

\* get_users(page): the page of users, or [] when the request fails
get_users(dir, p) ==
    IF p = dir.fault_page THEN <<>>
    ELSE IF p = 0
    THEN (IF dir.page_zero = "first_page" THEN PageOf(dir.items, 1) ELSE <<>>)
    ELSE PageOf(dir.items, p)

\* get_all_users: page = 0 before the loop
GetAllUsersStartPage == 0

InitAllUsers ==
    /\ NoCalc
    /\ gitlab = NoGitLab
    /\ config = [progress_step |-> 1]
    /\ progress_callback = "update_status"
    /\ flow = "idle"
    /\ all_tasks = <<>> /\ index = 1 /\ participants = <<>>
    /\ user_tasks = <<>> /\ assigned_tasks = <<>>
    /\ tasks = <<>> /\ tasks_with_metrics = <<>>
    /\ progress = <<>> /\ requests = {} /\ shown = None
    /\ seconds = 0 /\ formatted = <<>>
    /\ directory \in {[items |-> UsersOf(n), page_zero |-> z, fault_page |-> f] :
                          n \in 0..MaxUsers, z \in PageZeroAnswers,
                          f \in {0 - 1} \cup (0..MaxUsers)}
    /\ upos = "loop"
    /\ users_page = GetAllUsersStartPage
    /\ all_users = <<>>
    /\ pages_asked = <<>>
    /\ NoMessages
    /\ NoPages
    /\ NoSession

\* one iteration of the loop of get_all_users with a response that is not []
GetAllUsersPage ==
    /\ upos = "loop"
    /\ get_users(directory, users_page) # <<>>
    /\ pages_asked' = Append(pages_asked, users_page)
    /\ all_users' = all_users \o get_users(directory, users_page)
    /\ users_page' = users_page + 1
    /\ UNCHANGED <<directory, upos>>
    /\ UNCHANGED <<calcvars, flowvars, fmtvars, handlervars, pagevars, sessionvars>>

\* the iteration with the response []: break, return users
GetAllUsersReturn ==
    /\ upos = "loop"
    /\ get_users(directory, users_page) = <<>>
    /\ pages_asked' = Append(pages_asked, users_page)
    /\ upos' = "returned"
    /\ UNCHANGED <<directory, users_page, all_users>>
    /\ UNCHANGED <<calcvars, flowvars, fmtvars, handlervars, pagevars, sessionvars>>

NextAllUsers == GetAllUsersPage \/ GetAllUsersReturn

SpecAllUsers == InitAllUsers /\ [][NextAllUsers]_vars

-----------------------------------------------------------------------------
(* Handler.handle_message: the messages Workers, a user's name, Metrics and the rest *)

\* the users of the server as GET /users and GET /users/:id deliver them
People ==
    <<[id |-> 1, name |-> "Bob", username |-> "bob"],
      [id |-> 2, name |-> "Ann", username |-> "ann"],
      [id |-> 3, name |-> "Nobody", username |-> "Unknown"]>>

\* workers_message: user_mapping[name] = user['id'] for each user of the page, a
\* later user replacing an earlier one of the same name; as a set of <<name, id>>
MappingOf(page_users) ==
    {<<page_users[i].name, page_users[i].id>> : i \in
        {j \in DOMAIN page_users :
            \A k \in DOMAIN page_users : page_users[k].name = page_users[j].name => k <= j}}

\* user_metrics without the test of the username
CannotGetUser_NameNotChecked(user, uid) == uid = 0

\* user_metrics: current_user == "Unknown" or not current_user_id
CannotGetUser(user, uid) == user = "Unknown" \/ uid = 0

\* user_data.get('current_user', 'Unknown')
CurrentUserOr(default) == IF current_user = None THEN default ELSE current_user

InitHandler ==
    /\ NoCalc
    /\ NoFlow

\* "Workers", "Next" or "Previous": workers_message stores the mapping of the page
\* get_users returned, [] when the request failed
WorkersMessage ==
    /\ Len(replies) < MaxMessages
    /\ \E page_users \in {<<>>, PageOf(People, 1), PageOf(People, 2)} :
           user_mapping' = MappingOf(page_users)
    /\ replies' = Append(replies, [text |-> "Workers", reply |-> "Select a user:"])
    /\ UNCHANGED <<current_user, current_user_id, selections, metrics_calls>>
    /\ UNCHANGED <<calcvars, flowvars, fmtvars, usersvars, pagevars, sessionvars>>

\* a text that is a key of user_mapping: select_user stores the username get_user
\* returned, 'Unknown' when it returned {}, and the user id
SelectUser ==
    /\ Len(replies) < MaxMessages
    /\ \E entry \in user_mapping :
         \E user_data \in {<<>>} \cup {<<People[i]>> : i \in {j \in DOMAIN People :
                                                            People[j].id = entry[2]}} :
           /\ current_user' = IF user_data = <<>> THEN "Unknown" ELSE user_data[1].username
           /\ current_user_id' = entry[2]
           /\ selections' = selections \cup {<<current_user', current_user_id'>>}
           /\ replies' = Append(replies, [text |-> entry[1], reply |-> "User Information"])
    /\ UNCHANGED <<user_mapping, metrics_calls>>
    /\ UNCHANGED <<calcvars, flowvars, fmtvars, usersvars, pagevars, sessionvars>>

\* "Metrics": user_metrics returns with a reply when no user is selected, and calls
\* get_user_metrics otherwise
MetricsMessage ==
    /\ Len(replies) < MaxMessages
    /\ IF CannotGetUser(CurrentUserOr("Unknown"), current_user_id)
       THEN /\ replies' = Append(replies, [text |-> "Metrics",
                                           reply |-> "Cannot get user information"])
            /\ UNCHANGED metrics_calls
       ELSE /\ replies' = Append(replies, [text |-> "Metrics", reply |-> "Searching for tasks"])
            /\ metrics_calls' = Append(metrics_calls, [username |-> current_user,
                                                       user_id |-> current_user_id])
    /\ UNCHANGED <<user_mapping, current_user, current_user_id, selections>>
    /\ UNCHANGED <<calcvars, flowvars, fmtvars, usersvars, pagevars, sessionvars>>

\* "Start" or "Main menu": a menu is shown
MenuMessage ==
    /\ Len(replies) < MaxMessages
    /\ replies' = Append(replies, [text |-> "Main menu", reply |-> "Choose option:"])
    /\ UNCHANGED <<user_mapping, current_user, current_user_id, selections, metrics_calls>>
    /\ UNCHANGED <<calcvars, flowvars, fmtvars, usersvars, pagevars, sessionvars>>

NextHandler == WorkersMessage \/ SelectUser \/ MetricsMessage \/ MenuMessage

SpecHandler == InitHandler /\ [][NextHandler]_vars

-----------------------------------------------------------------------------
(* The workers list of handlers/base_handlers.py and its pages *)

\* page_size = 8
WorkersPageSize == 8

\* what get_all_users may return: no user, or up to MaxWorkers of them
WorkerLists == {UsersOf(n) : n \in 0..MaxWorkers}

\* users[start_index:end_index] for the page new_page
PageSlice(list, new_page, page_size) ==
    SubSeq(list, (new_page - 1) * page_size + 1, Min({new_page * page_size, Len(list)}))

\* data.get(key, default) of the stored data
DataGet(key, default) == IF state_data = <<>> THEN default ELSE state_data[1][key]

\* handle_next_page without the limit total_pages
NextPageOf_Unlimited(current_page, total_pages) == current_page + 1

\* handle_next_page: new_page = current_page + 1, at most total_pages
NextPageOf(current_page, total_pages) ==
    IF current_page + 1 > total_pages THEN total_pages ELSE current_page + 1

\* handle_previous_page: new_page = current_page - 1, at least 1
PreviousPageOf(current_page) == IF current_page - 1 < 1 THEN 1 ELSE current_page - 1

InitPages ==
    /\ NoCalc
    /\ NoFlow

\* command_workers_handler with a service: a non-empty list is stored with
\* current_page 1 and its first page shown; an empty one is answered with
\* 'No workers found.' and stores nothing
WorkersCommand ==
    /\ answered < MaxMessages
    /\ answered' = answered + 1
    /\ \E list \in WorkerLists :
           IF list # <<>>
           THEN /\ state_data' = <<[users |-> list, current_page |-> 1,
                                   total_pages |-> (Len(list) + WorkersPageSize - 1)
                                                      \div WorkersPageSize,
                                   page_size |-> WorkersPageSize]>>
                /\ fsm_state' = "viewing_users"
                /\ shown_users' = PageSlice(list, 1, WorkersPageSize)
           ELSE UNCHANGED <<state_data, fsm_state, shown_users>>
    /\ UNCHANGED <<calcvars, flowvars, fmtvars, usersvars, handlervars, sessionvars>>

\* handle_previous_page, which the router calls in the state viewing_users only
PreviousPage ==
    /\ answered < MaxMessages
    /\ fsm_state = "viewing_users"
    /\ answered' = answered + 1
    /\ LET new_page == PreviousPageOf(DataGet("current_page", 1))
       IN  /\ state_data' = <<[state_data[1] EXCEPT !.current_page = new_page]>>
           /\ shown_users' = PageSlice(DataGet("users", <<>>), new_page,
                                       DataGet("page_size", WorkersPageSize))
    /\ UNCHANGED fsm_state
    /\ UNCHANGED <<calcvars, flowvars, fmtvars, usersvars, handlervars, sessionvars>>

\* handle_next_page, which the router calls in the state viewing_users only
NextPage ==
    /\ answered < MaxMessages
    /\ fsm_state = "viewing_users"
    /\ answered' = answered + 1
    /\ LET new_page == NextPageOf(DataGet("current_page", 1), DataGet("total_pages", 1))
       IN  /\ state_data' = <<[state_data[1] EXCEPT !.current_page = new_page]>>
           /\ shown_users' = PageSlice(DataGet("users", <<>>), new_page,
                                       DataGet("page_size", WorkersPageSize))
    /\ UNCHANGED fsm_state
    /\ UNCHANGED <<calcvars, flowvars, fmtvars, usersvars, handlervars, sessionvars>>

\* handle_user_selection with the name of a stored user: the user is shown
UserSelected ==
    /\ answered < MaxMessages
    /\ fsm_state = "viewing_users"
    /\ DataGet("users", <<>>) # <<>>
    /\ answered' = answered + 1
    /\ UNCHANGED <<fsm_state, state_data, shown_users>>
    /\ UNCHANGED <<calcvars, flowvars, fmtvars, usersvars, handlervars, sessionvars>>

\* handle_back_button, and handle_user_selection with a name that is not stored:
\* state.clear() drops the state and the data
BackOrNotFound ==
    /\ answered < MaxMessages
    /\ answered' = answered + 1
    /\ fsm_state' = None
    /\ state_data' = <<>>
    /\ shown_users' = <<>>
    /\ UNCHANGED <<calcvars, flowvars, fmtvars, usersvars, handlervars, sessionvars>>

NextPages == WorkersCommand \/ PreviousPage \/ NextPage \/ UserSelected \/ BackOrNotFound

SpecPages == InitPages /\ [][NextPages]_vars

-----------------------------------------------------------------------------
(* The session of the singleton GitLabService under concurrent coroutines: each    *)
(* coroutine calls get_task_notes, which asks for one page or two, and close() may  *)
(* run whenever the coroutines are suspended in an await                            *)

\* _ensure_session: self._session is None or self._session.closed
NeedsSession(s) == s.id = 0 \/ s.closed

InitSession ==
    /\ NoCalc
    /\ NoFlow

\* The start of get_task_notes, up to its first await: _ensure_session, which
\* has no await inside, and the request for page 1 on the session it left
StartCall(c) ==
    /\ callers[c].at = "idle"
    /\ callers[c].calls < MaxCalls
    /\ session' = IF NeedsSession(session)
                  THEN [id |-> session.id + 1, closed |-> FALSE]
                  ELSE session
    /\ attempts' = attempts \cup {[by |-> c, session |-> session'.id,
                                     open |-> ~session'.closed]}
    /\ callers' = [callers EXCEPT ![c] = [at |-> "awaiting", calls |-> @.calls + 1]]
    /\ UNCHANGED closes
    /\ UNCHANGED <<calcvars, flowvars, fmtvars, usersvars, handlervars, pagevars>>

\* The coroutine resumes with the response of page 1. The loop ends (an error, a
\* 404 or a page of fewer than 100 notes), or the page was full and the request for
\* page 2 is made at once on the session the attribute holds now; the response to
\* that request ends the call (on a closed session aiohttp raises RuntimeError,
\* which the except Exception clause answers with break)
Resume(c) ==
    /\ callers[c].at = "awaiting"
    /\ \E full_page \in BOOLEAN :
           /\ attempts' = IF full_page
                          THEN attempts \cup {[by |-> c, session |-> session.id,
                                                open |-> ~session.closed]}
                          ELSE attempts
           /\ callers' = [callers EXCEPT ![c].at =
                             IF full_page /\ ~session.closed THEN "last page" ELSE "idle"]
    /\ UNCHANGED <<session, closes>>
    /\ UNCHANGED <<calcvars, flowvars, fmtvars, usersvars, handlervars, pagevars>>

\* the coroutine resumes with the response of page 2 and returns
Return(c) ==
    /\ callers[c].at = "last page"
    /\ callers' = [callers EXCEPT ![c].at = "idle"]
    /\ UNCHANGED <<session, attempts, closes>>
    /\ UNCHANGED <<calcvars, flowvars, fmtvars, usersvars, handlervars, pagevars>>

\* close(), from any coroutine (__aexit__ calls it): an open session is closed
Close ==
    /\ closes < MaxCloses
    /\ closes' = closes + 1
    /\ session' = IF session.id # 0 /\ ~session.closed
                  THEN [session EXCEPT !.closed = TRUE]
                  ELSE session
    /\ UNCHANGED <<callers, attempts>>
    /\ UNCHANGED <<calcvars, flowvars, fmtvars, usersvars, handlervars, pagevars>>

NextSession ==
    \/ \E c \in Callers : StartCall(c)
    \/ \E c \in Callers : Resume(c)
    \/ \E c \in Callers : Return(c)
    \/ Close

SpecSession == InitSession /\ [][NextSession]_vars

-----------------------------------------------------------------------------
(* Properties *)

Done == pc = "done"

IsNote(e)  == "body" \in DOMAIN e
IsLabel(e) == "action" \in DOMAIN e

\* number of occurrences of e in the list xs
Count(xs, e) == Cardinality({i \in DOMAIN xs : xs[i] = e})

\* C3: merged_history is non-decreasing by created_at and holds every note and every
\* label event exactly as often as the two input lists hold it, tails included
C3_MergeIsSortedUnion ==
    Done =>
        LET m == task_metrics.merged_history
        IN  /\ \A i \in 1..(Len(m) - 1) : m[i].created_at <= m[i + 1].created_at
            /\ Len(m) = Len(history) + Len(labels_history)
            /\ \A e \in Range(history) \cup Range(labels_history) \cup Range(m) :
                   Count(m, e) = Count(history, e) + Count(labels_history, e)

\* C3 witness: one list is exhausted while the other still holds two events, and
\* notes and label events interleave
C3_Witness ==
    /\ Done
    /\ Len(history) = 3 /\ Len(labels_history) = 1
    /\ LET m == task_metrics.merged_history
       IN  IsNote(m[1]) /\ IsLabel(m[2]) /\ IsNote(m[3]) /\ IsNote(m[4])
           /\ m[1].created_at < m[2].created_at

\* C4: at equal created_at a note comes before a label event in merged_history
C4_NoteBeforeLabelOnTie ==
    Done =>
        LET m == task_metrics.merged_history
        IN  \A i, j \in DOMAIN m :
               (IsNote(m[i]) /\ IsLabel(m[j]) /\ m[i].created_at = m[j].created_at) => i < j

(* What the input says happened, read off the notes GitLab writes *)

IsAssignNote(n)   == n.system /\ n.body = BodyAssignedTo(username)
IsUnassignNote(n) == n.system /\ n.body = BodyUnassigned(username)
IsCloseNote(n)    == n.system /\ n.body = BodyClosed
IsReopenNote(n)   == n.system /\ n.body = BodyReopened

\* the notes in chronological order
NotesInOrder == SortedBy(history, "created_at")
LabelsInOrder == SortedBy(labels_history, "created_at")

\* whether the target user is the assignee after the first k notes
RECURSIVE AssignedAfter(_)
AssignedAfter(k) ==
    IF k = 0 THEN FALSE
    ELSE IF IsAssignNote(NotesInOrder[k]) THEN TRUE
    ELSE IF IsUnassignNote(NotesInOrder[k]) THEN FALSE
    ELSE AssignedAfter(k - 1)

\* whether the issue is closed after the first k notes
RECURSIVE ClosedAfter(_)
ClosedAfter(k) ==
    IF k = 0 THEN FALSE
    ELSE IF IsCloseNote(NotesInOrder[k]) THEN TRUE
    ELSE IF IsReopenNote(NotesInOrder[k]) THEN FALSE
    ELSE ClosedAfter(k - 1)

\* the issue's closed_at field after the first k notes
RECURSIVE ClosedAtAfter(_)
ClosedAtAfter(k) ==
    IF k = 0 THEN NoneTime
    ELSE IF IsCloseNote(NotesInOrder[k]) THEN NotesInOrder[k].created_at
    ELSE IF IsReopenNote(NotesInOrder[k]) THEN NoneTime
    ELSE ClosedAtAfter(k - 1)

\* whether label l is applied after the first k label events
RECURSIVE AppliedAfter(_, _)
AppliedAfter(l, k) ==
    IF k = 0 THEN FALSE
    ELSE IF LabelsInOrder[k].label.name = l THEN LabelsInOrder[k].action = "add"
    ELSE AppliedAfter(l, k - 1)

\* a history GitLab can have written: distinct timestamps within each list; the
\* target is assigned only when unassigned and unassigned only when assigned; the
\* issue is closed only when open and reopened only when closed; a label is added
\* only when absent and removed only when applied
ConsistentTimeline ==
    /\ \A i, j \in DOMAIN history :
           i # j => history[i].created_at # history[j].created_at
    /\ \A i, j \in DOMAIN labels_history :
           i # j => labels_history[i].created_at # labels_history[j].created_at
    /\ \A k \in DOMAIN NotesInOrder :
           /\ IsAssignNote(NotesInOrder[k]) => ~AssignedAfter(k - 1)
           /\ IsUnassignNote(NotesInOrder[k]) => AssignedAfter(k - 1)
           /\ IsCloseNote(NotesInOrder[k]) => ~ClosedAfter(k - 1)
           /\ IsReopenNote(NotesInOrder[k]) => ClosedAfter(k - 1)
    /\ \A k \in DOMAIN LabelsInOrder :
           (LabelsInOrder[k].action = "add")
               = ~AppliedAfter(LabelsInOrder[k].label.name, k - 1)

\* the issue's closed_at was read after the last note was written
FreshClosedAt == task_metrics.closed_at = ClosedAtAfter(Len(history))

\* the issue's closed_at was read at some moment of the timeline, the notes after it
SnapshotClosedAt == \E k \in 0..Len(history) : task_metrics.closed_at = ClosedAtAfter(k)

\* the number of notes written at or before time t
NotesUpTo(t) == Cardinality({k \in DOMAIN NotesInOrder : NotesInOrder[k].created_at <= t})

\* the target is the assignee at time a and is not unassigned in (a, b]
AssignedThroughout(a, b) ==
    /\ AssignedAfter(NotesUpTo(a))
    /\ \A k \in DOMAIN history :
           IsUnassignNote(history[k]) => ~(a < history[k].created_at /\ history[k].created_at <= b)

\* the issue is open at time a and is not closed in (a, b]
OpenThroughout(a, b) ==
    /\ ~ClosedAfter(NotesUpTo(a))
    /\ \A k \in DOMAIN history :
           IsCloseNote(history[k]) => ~(a < history[k].created_at /\ history[k].created_at <= b)

AllTimes == 0..(MaxTime + MaxReassignTime)

\* the total and the history the result holds for a tracked label
TimeOf(l) ==
    IF l = "doing" THEN task_metrics.cicle_time
    ELSE IF l = "review" THEN task_metrics.review_time
    ELSE task_metrics.qa_time

HistoryOf(l) ==
    IF l = "doing" THEN task_metrics.cicle_history
    ELSE IF l = "review" THEN task_metrics.review_history
    ELSE task_metrics.qa_history

\* C1: no tracked label's total exceeds the time during which the issue was open and
\* the target user assigned, as reported in total_open_assignment_time
C1_Conservation ==
    (Done /\ ConsistentTimeline /\ FreshClosedAt) => \A l \in TrackedLabels : TimeOf(l) <= task_metrics.total_open_assignment_time

\* C2: every recorded interval lies inside one assignment period of the target user
\* and inside one opened state period
C2_IntervalsInsidePeriods ==
    (Done /\ ConsistentTimeline /\ FreshClosedAt) =>
        \A l \in TrackedLabels : \A k \in DOMAIN HistoryOf(l) :
            LET iv == HistoryOf(l)[k]
                ap == task_metrics.assignment_periods
                sp == task_metrics.state_periods
            IN  /\ \E i \in DOMAIN ap : ap[i].start <= iv.start /\ iv.end <= ap[i].end
                /\ \E i \in DOMAIN sp : /\ sp[i].state = "opened"
                                         /\ sp[i].start <= iv.start /\ iv.end <= sp[i].end

\* C5: state_periods starts at created_at, ends at end_time, every period has
\* start <= end, and every period ends where the next one starts
C5_StatePeriodsPartition ==
    (Done /\ ConsistentTimeline /\ SnapshotClosedAt) =>
        LET sp == task_metrics.state_periods
        IN  /\ sp # <<>>
            /\ sp[1].start = task_metrics.created_at
            /\ sp[Len(sp)].end = EndTime(task_metrics.closed_at, current_time)
            /\ \A i \in DOMAIN sp : sp[i].start <= sp[i].end
            /\ \A i \in 1..(Len(sp) - 1) : sp[i].end = sp[i + 1].start

\* C6: the assignment periods of the target user have start <= end and do not
\* overlap: each ends no later than the next one starts
C6_AssignmentPeriodsDisjoint ==
    (Done /\ ConsistentTimeline /\ FreshClosedAt) =>
        LET ap == task_metrics.assignment_periods
        IN  /\ \A i \in DOMAIN ap : ap[i].start <= ap[i].end
            /\ \A i \in 1..(Len(ap) - 1) : ap[i].end <= ap[i + 1].start

\* C7: a tracked label added at L while the target is not assigned, the target
\* assigned at A > L with the issue open, the label removed at R > A while still
\* assigned and open: the label's total is R - A
C7_LazyStart ==
    (Done /\ ConsistentTimeline /\ FreshClosedAt) =>
        \A l \in TrackedLabels : \A L, A, R \in AllTimes :
            ( /\ L < A /\ A < R
              /\ LabelsInOrder = <<LabelEvent(L, "add", l), LabelEvent(R, "remove", l)>>
              /\ ~AssignedAfter(NotesUpTo(L))
              /\ \E k \in DOMAIN history :
                     IsAssignNote(history[k]) /\ history[k].created_at = A
              /\ AssignedThroughout(A, R)
              /\ OpenThroughout(L, R) )
            => TimeOf(l) = R - A

\* the premise of C8: doing added at A and removed at R > A, no other label event,
\* the target assigned at or before A, assigned and the issue open throughout [A, R]
C8_Case(A, R) ==
    /\ A < R
    /\ LabelsInOrder = <<LabelEvent(A, "add", "doing"), LabelEvent(R, "remove", "doing")>>
    /\ AssignedThroughout(A, R)
    /\ OpenThroughout(A, R)

C9_Case(A, C) ==
    /\ A < C
    /\ labels_history = <<LabelEvent(A, "add", "doing")>>
    /\ AssignedThroughout(A, C)
    /\ ~ClosedAfter(NotesUpTo(A))
    /\ \E k \in DOMAIN history : IsCloseNote(history[k]) /\ history[k].created_at = C
    /\ \A k \in DOMAIN history :
           /\ IsCloseNote(history[k]) => ~(A < history[k].created_at /\ history[k].created_at < C)
           /\ IsReopenNote(history[k]) => history[k].created_at <= A

OutsideAssignment(t) ==
    \A i \in DOMAIN task_metrics.assignment_periods :
        ~( task_metrics.assignment_periods[i].start <= t
           /\ t <= task_metrics.assignment_periods[i].end )

\* C10: a tracked label whose add and remove events all fall outside every
\* assignment period has total 0 and no recorded interval
C10_ZeroOutsideAssignment ==
    Done =>
        \A l \in TrackedLabels :
            (\A k \in DOMAIN labels_history :
                labels_history[k].label.name = l
                    => OutsideAssignment(labels_history[k].created_at))
            => (TimeOf(l) = 0 /\ HistoryOf(l) = <<>>)

\* C10 witness: doing is added and later removed before the target's only
\* assignment period starts
C10_Witness ==
    /\ Done /\ ConsistentTimeline /\ FreshClosedAt
    /\ \E k \in DOMAIN history : IsAssignNote(history[k])
    /\ \E A, R \in AllTimes :
          /\ A < R
          /\ LabelsInOrder = <<LabelEvent(A, "add", "doing"), LabelEvent(R, "remove", "doing")>>
          /\ OutsideAssignment(A) /\ OutsideAssignment(R)
          /\ Len(task_metrics.assignment_periods) = 1
          /\ task_metrics.assignment_periods[1].start > R
    /\ task_metrics.cicle_time = 0 /\ task_metrics.cicle_history = <<>>

\* C11: a second run of calculate_metrics on the same notes, label events, username
\* and issue fields (a history GitLab can have written) gives the same three totals
\* and the same three history lists
C11_Idempotent ==
    [][(pc = "done" /\ pc' = "again" /\ ConsistentTimeline) =>
          /\ task_metrics'.cicle_time = task_metrics.cicle_time
          /\ task_metrics'.review_time = task_metrics.review_time
          /\ task_metrics'.qa_time = task_metrics.qa_time
          /\ task_metrics'.cicle_history = task_metrics.cicle_history
          /\ task_metrics'.review_history = task_metrics.review_history
          /\ task_metrics'.qa_history = task_metrics.qa_history]_vars

\* the events of a list whose created_at is a timestamp
WellFormed(xs) == SelectSeq(xs, LAMBDA e : ~fromisoformat_raises(e.created_at))

\* C15: with a malformed created_at among the notes or label events,
\* calculate_metrics returns, and returns the metrics of the remaining events
C15_MalformedDropped ==
    (pc \in {"done", "raised"} /\ (WellFormed(history) # history \/ WellFormed(labels_history) # labels_history)) =>
        /\ pc = "done"
        /\ task_metrics = calculate_metrics(WellFormed(history), WellFormed(labels_history),
                                            username, IssueFields(task_metrics), current_time)

\* what the pages before the failing page of a resource hold
CollectedBefore(res) ==
    SubSeq(res.items, 1, Min({Len(res.items), (res.fault_page - 1) * PerPage}))

\* C14: a fetch of participants, notes or label events that is answered 404 on some
\* page returns the items of the pages before it (none when it is the first page),
\* and the caller goes on to its next step
C14_NotFoundIsNoHistory ==
    /\ (flow \in {"fetch_notes", "fetch_label_events", "fetched"}
            /\ gitlab.participants[1].fault = "not_found")
        => participants = CollectedBefore(gitlab.participants[1])
    /\ (flow \in {"fetch_label_events", "fetched"} /\ gitlab.notes[1].fault = "not_found")
        => history = CollectedBefore(gitlab.notes[1])
    /\ (flow = "fetched" /\ gitlab.label_events[1].fault = "not_found")
        => labels_history = CollectedBefore(gitlab.label_events[1])

\* C14 witness: the three fetches are over; the notes were answered 404 on the
\* second page and the first page is returned, the label events and the
\* participants were answered 404 on the first page and nothing is returned
C14_Witness ==
    /\ flow = "fetched"
    /\ gitlab.notes[1].fault = "not_found" /\ gitlab.notes[1].fault_page = 2
    /\ Len(history) = PerPage
    /\ gitlab.label_events[1].fault = "not_found" /\ gitlab.label_events[1].items # <<>>
    /\ labels_history = <<>>
    /\ gitlab.participants[1].fault = "not_found" /\ gitlab.participants[1].items # <<>>
    /\ participants = <<>>

\* C16: when the listing of the issues fails on a page get_all_tasks requests, with
\* a network error or an error status, the last thing get_all_tasks does with the
\* callback is to invoke it with the percent -1 and the error message
C16_ListingFailureSignalled ==
    [][(flow = "list" /\ flow' = "filter" /\ gitlab.listing.fault # "none")
          => /\ Len(progress') > Len(progress)
             /\ progress'[Len(progress')].percent = Sentinel
             /\ progress'[Len(progress')].text \in {"Network error", "Unexpected error"}
             /\ progress_callback = "update_status"
                   => progress'[Len(progress')] = Call("Network error", Sentinel)]_vars

\* C16 witness: two pages were loaded and announced, the third was answered with
\* an error status, and the callback got -1
C16_Witness ==
    /\ flow = "filter"
    /\ progress_callback = "update_status"
    /\ gitlab.listing.fault = "server_error" /\ gitlab.listing.fault_page = 3
    /\ Len(progress) = 5
    /\ progress[4] = Call("Loaded", IF gitlab.has_totals THEN Percent(200, 3) ELSE NoPercent)
    /\ progress[5] = Call("Network error", Sentinel)
    /\ all_tasks = <<>>

\* C17: once the callback got -1 for the listing, no later invocation carries 100
\* percent, and user_metrics does not end with the message it shows when the user
\* has no tasks
C17_ListingFailureIsHard ==
    \A i \in DOMAIN progress :
        progress[i] = Call("Network error", Sentinel)
            => /\ \A j \in (i + 1)..Len(progress) : progress[j].percent # Percent(100, 1)
               /\ shown # "no_tasks"

\* the issues of a listing answered without a fault that pass both loops of
\* get_all_historical_user_assignments
Assignments(gl, u) ==
    SelectSeq(gl.listing.items,
              LAMBDA task :
                  /\ user_is_participant(get_task_participants(gl.participants[task.id]), u.id)
                  /\ \/ task.assignee_id = u.id
                     \/ check_task_assignee(u.username, get_task_notes(gl.notes[task.id])))

\* C18: with a callback that may raise on any invocation, get_user_metrics still
\* gets from get_all_historical_user_assignments the list it gets when the
\* callback does not raise, and, unless reading a timestamp fails, it returns
C18_CallbackAdvisory ==
    /\ (flow \in {"metrics", "returned"} /\ gitlab.listing.fault = "none")
          => tasks = Assignments(gitlab, Bob)
    /\ (flow = "raised" /\ index <= Len(tasks))
          => calculate_metrics_raises(history, labels_history, TaskFieldsOf(tasks[index]))

\* C12: when get_task_metrics raises for an issue, get_user_metrics goes on with
\* the next issue, and the issue is in the result with the field error
C12_ErrorContained ==
    [][(flow = "metrics" /\ index <= Len(tasks)
           /\ calculate_metrics_raises(history', labels_history', TaskFieldsOf(tasks[index])))
          => /\ flow' = "metrics"
             /\ index' = index + 1
             /\ Len(tasks_with_metrics') = Len(tasks_with_metrics) + 1
             /\ "error" \in DOMAIN tasks_with_metrics'[index]]_vars

\* the three durations of a task_metrics record are zero
ZeroMetrics(tm) == tm.cicle_time = 0 /\ tm.review_time = 0 /\ tm.qa_time = 0

\* C13: when the report is sent, it holds every issue assigned to the user; an
\* issue whose notes were answered 404 has the field error and zero metrics
C13_NotFoundMarked ==
    (flow = "finished" /\ shown = "report" /\ gitlab.listing.fault = "none")
        => /\ Len(tasks_with_metrics) = Len(Assignments(gitlab, Bob))
           /\ \A i \in DOMAIN tasks_with_metrics :
                 gitlab.notes[tasks[i].id].fault = "not_found"
                     => /\ ZeroMetrics(tasks_with_metrics[i])
                        /\ "error" \in DOMAIN tasks_with_metrics[i]

\* C19: while user_metrics runs, from its start to the message it ends with, every
\* request sent to GitLab is a GET; the POST of create_new_task is sent under the
\* handler create_task only
C19_ReadOnly ==
    [][/\ (flow \notin {"idle", "finished"})
             => \A r \in requests' \ requests : r.method = "GET"
       /\ \A r \in requests' : r.handler = "user_metrics" => r.method = "GET"]_vars

\* C19 witness: user_metrics has sent its report after requesting the issues, the
\* participants, the notes and the label events, and create_task has posted an issue
C19_Witness ==
    /\ flow = "finished"
    /\ shown = "report"
    /\ requests = {Request("GET", "issues", "user_metrics"),
                   Request("GET", "participants", "user_metrics"),
                   Request("GET", "notes", "user_metrics"),
                   Request("GET", "resource_label_events", "user_metrics"),
                   Request("POST", "issues", "create_task")}

\* a system note that assigns exactly the user u
NoteAssignsUser(note, u) == IsSystemNote(note) /\ Lower(note.body) = Lower(BodyAssignedTo(u))

\* C20: every issue get_all_historical_user_assignments returns has the user among
\* its fetched participants and is assigned to the user now or by a system note;
\* an issue where the user is a participant only is not returned
C20_DiscoveryFilter ==
    flow = "metrics"
        => \A i \in DOMAIN tasks :
              /\ user_is_participant(get_task_participants(gitlab.participants[tasks[i].id]),
                                      user_id)
              /\ \/ tasks[i].assignee_id = user_id
                 \/ \E k \in DOMAIN gitlab.notes[tasks[i].id].items :
                       NoteAssignsUser(gitlab.notes[tasks[i].id].items[k], username)

\* C21: every listed issue whose assignee_id is the user's is in the list
\* get_all_historical_user_assignments returns, also when the request for the
\* issue's participants failed
C21_AssignedIncluded ==
    (flow = "metrics" /\ progress_callback = "update_status" /\ gitlab.listing.fault = "none")
        => \A i \in DOMAIN gitlab.listing.items :
              gitlab.listing.items[i].assignee_id = user_id
                  => \E k \in DOMAIN tasks : tasks[k] = gitlab.listing.items[i]

(* Reading a rendered duration back *)

\* the words of a string, split at every space
RECURSIVE Words(_)
Words(s) ==
    IF s = <<>> THEN << <<>> >>
    ELSE IF Head(s) = " " THEN << <<>> >> \o Words(Tail(s))
    ELSE << <<Head(s)>> \o Words(Tail(s))[1] >> \o Tail(Words(Tail(s)))

\* the number a string of decimal digits denotes
RECURSIVE NumberOf(_)
NumberOf(ds) ==
    IF ds = <<>> THEN 0
    ELSE 10 * NumberOf(SubSeq(ds, 1, Len(ds) - 1))
         + (CHOOSE v \in 0..9 : DigitChars[v + 1] = ds[Len(ds)])

Units == <<"d", "h", "m", "s">>
UnitSeconds == <<24 * 3600, 3600, 60, 1>>

\* a word is a component: decimal digits without a leading zero, then a unit
IsComponent(w) ==
    /\ Len(w) >= 2
    /\ \E k \in DOMAIN Units : Units[k] = w[Len(w)]
    /\ \A i \in 1..(Len(w) - 1) : w[i] \in Range(DigitChars)
    /\ (Len(w) > 2 => w[1] # "0")

\* the component a word denotes: its value and the rank of its unit
ComponentOf(w) ==
    [value |-> NumberOf(SubSeq(w, 1, Len(w) - 1)),
     rank  |-> CHOOSE k \in DOMAIN Units : Units[k] = w[Len(w)]]

\* the words are components in the order d, h, m, s, with hours < 24,
\* minutes < 60 and seconds < 60, and they add up to the duration rounded to a
\* whole second (halves counts half seconds)
RendersDuration(words, halves) ==
    /\ words # <<>>
    /\ \A i \in DOMAIN words : IsComponent(words[i])
    /\ \A i \in 1..(Len(words) - 1) : ComponentOf(words[i]).rank < ComponentOf(words[i + 1]).rank
    /\ \A i \in DOMAIN words :
           /\ ComponentOf(words[i]).rank = 2 => ComponentOf(words[i]).value < 24
           /\ ComponentOf(words[i]).rank > 2 => ComponentOf(words[i]).value < 60
    /\ 2 * SumTo([i \in DOMAIN words |->
                    ComponentOf(words[i]).value * UnitSeconds[ComponentOf(words[i]).rank]],
                 Len(words)) \in (halves - 1)..(halves + 1)

\* the original statement of C22: the string is the template d h m s without its
\* zero-valued leading and trailing components, so every component between the
\* first and the last one shown is shown
C22_TrimmedTemplate ==
    pc = "formatted"
        => /\ RendersDuration(Words(formatted), seconds)
           /\ \A i \in 1..(Len(Words(formatted)) - 1) :
                 ComponentOf(Words(formatted)[i + 1]).rank
                     = ComponentOf(Words(formatted)[i]).rank + 1

\* C22: format_duration renders a non-negative duration as its components in the
\* order d, h, m, s with hours < 24, minutes < 60, seconds < 60, adding up to the
\* duration rounded to whole seconds; every zero-valued component is left out,
\* and a duration that rounds to zero is rendered 0s
C22_NonZeroComponents ==
    pc = "formatted"
        => /\ RendersDuration(Words(formatted), seconds)
           /\ \/ formatted = <<"0", "s">>
              \/ \A i \in DOMAIN Words(formatted) :
                    ComponentOf(Words(formatted)[i]).value > 0

\* C22 witness: one day, one minute and 59.5 seconds round to one day and two
\* minutes; the zero hours and the zero seconds are left out
C22_Witness ==
    /\ pc = "formatted"
    /\ seconds = HalfSeconds(((1 * 24 + 0) * 60 + 1) * 60 + 59, 1)
    /\ formatted = <<"1", "d", " ", "2", "m">>

\* the premise of C23: doing added at t1 and removed at t3, no other label event;
\* the target assigned at t1, unassigned at a1, assigned again at a2, no other
\* note after t1; t1 < a1 < a2 < t3 and the issue open
C23_Case(t1, a1, a2, t3) ==
    /\ t1 < a1 /\ a1 < a2 /\ a2 < t3
    /\ LabelsInOrder = <<LabelEvent(t1, "add", "doing"), LabelEvent(t3, "remove", "doing")>>
    /\ AssignedAfter(NotesUpTo(t1))
    /\ SelectSeq(NotesInOrder, LAMBDA n : n.created_at > t1)
           = <<Note(a1, TRUE, BodyUnassigned(username)), Note(a2, TRUE, BodyAssignedTo(username))>>
    /\ task_metrics.closed_at = NoneTime

\* C23: in that case the total of the label is (a1 - t1) + (t3 - a2)
C23_AwayAndBack ==
    (Done /\ ConsistentTimeline) =>
        \A t1, a1, a2, t3 \in 1..MaxReassignTime :
            C23_Case(t1, a1, a2, t3) => task_metrics.cicle_time = (a1 - t1) + (t3 - a2)

\* assignment_start after the first k events of merged_history: NoneTime when the
\* code holds the target not assigned
StartedBy(k) ==
    AssignmentLoop(SubSeq(task_metrics.merged_history, 1, k), username).assignment_start

\* C25: a system note 'unassigned @<target>' read while the target is not assigned
\* starts no assignment period, and read while the target is assigned it ends the
\* period at its timestamp
C25_UnassignedOnlyEnds ==
    Done =>
        \A k \in DOMAIN task_metrics.merged_history :
            LET event == task_metrics.merged_history[k]
            IN  (IsNote(event) /\ IsUnassignNote(event))
                    => IF StartedBy(k - 1) = NoneTime
                       THEN StartedBy(k) = NoneTime
                       ELSE /\ StartedBy(k) = NoneTime
                            /\ \E i \in DOMAIN task_metrics.assignment_periods :
                                  /\ task_metrics.assignment_periods[i].start = StartedBy(k - 1)
                                  /\ task_metrics.assignment_periods[i].end = event.created_at

\* a system note that assigns the issue to the user u, in any letter case
AssignsTo(event, u) ==
    IsNote(event) /\ event.system /\ Lower(event.body) = Lower(BodyAssignedTo(u))

\* C24: a system note that assigns the issue to another user while the target is
\* the assignee ends the target's assignment period at the note's timestamp
C24_ReassignedAwayEnds ==
    Done =>
        \A k \in DOMAIN task_metrics.merged_history :
            LET event == task_metrics.merged_history[k]
            IN  ((\E u \in Usernames : Lower(u) # Lower(username) /\ AssignsTo(event, u))
                    /\ StartedBy(k - 1) # NoneTime)
                    => /\ StartedBy(k) = NoneTime
                       /\ \E i \in DOMAIN task_metrics.assignment_periods :
                             /\ task_metrics.assignment_periods[i].start = StartedBy(k - 1)
                             /\ task_metrics.assignment_periods[i].end = event.created_at

\* C26: a system note 'assigned to @<username>' in any letter case starts an
\* assignment period of the target in calculate_metrics and makes
\* check_task_assignee answer True, also for a username with capital letters
C26_CaseInsensitive ==
    (Done /\ \E k \in DOMAIN history : AssignsTo(history[k], username))
        => /\ task_metrics.assignment_periods # <<>>
           /\ check_task_assignee(username, history)

-----------------------------------------------------------------------------
(* Specification of an added event: after calculate_metrics has run on a history   *)
(* GitLab can have written, a comment of a user or an event of another label is    *)
(* added to it and calculate_metrics runs again                                    *)

\* a label calculate_metrics does not track
UntrackedLabel == "bug"

\* notes users write themselves: system is false, whatever the text says
Comments ==
    {Note(t, FALSE, b) : t \in 1..MaxReassignTime, b \in {BodyClosed, BodyAssignedTo(U_bob)}}

UntrackedLabelEvents ==
    {LabelEvent(t, a, UntrackedLabel) : t \in 1..MaxReassignTime, a \in {"add", "remove"}}

\* the API lists one more note, first or last; get_task_metrics runs again
AddComment ==
    /\ pc = "done"
    /\ ConsistentTimeline
    /\ \E c \in Comments : history' \in {<<c>> \o history, Append(history, c)}
    /\ task_metrics' = calculate_metrics(history', labels_history, username,
                                         IssueFields(task_metrics), current_time)
    /\ pc' = "again"
    /\ UNCHANGED <<username, labels_history, current_time>>
    /\ UNCHANGED <<flowvars, fmtvars, botvars>>

\* the API lists one more label event, first or last; get_task_metrics runs again
AddUntrackedLabelEvent ==
    /\ pc = "done"
    /\ ConsistentTimeline
    /\ \E e \in UntrackedLabelEvents :
          labels_history' \in {<<e>> \o labels_history, Append(labels_history, e)}
    /\ task_metrics' = calculate_metrics(history, labels_history', username,
                                         IssueFields(task_metrics), current_time)
    /\ pc' = "again"
    /\ UNCHANGED <<username, history, current_time>>
    /\ UNCHANGED <<flowvars, fmtvars, botvars>>

NextAdded == CalculateMetrics \/ AddComment \/ AddUntrackedLabelEvent

SpecAdded == InitReassign /\ [][NextAdded]_vars

\* the three totals and the three history lists of two results are the same
SameAttribution(a, b) ==
    /\ a.cicle_time = b.cicle_time /\ a.cicle_history = b.cicle_history
    /\ a.review_time = b.review_time /\ a.review_history = b.review_history
    /\ a.qa_time = b.qa_time /\ a.qa_history = b.qa_history

\* C27: an add or remove event of a label other than doing, review and qa, added
\* to the timeline at any timestamp, leaves the three totals and the three
\* history lists as they were
C27_UntrackedIgnored ==
    [][(pc = "done" /\ pc' = "again" /\ labels_history' # labels_history)
          => SameAttribution(task_metrics', task_metrics)]_vars

\* C28: a note with system = false, added to the timeline at any timestamp, leaves
\* the state periods, the assignment periods, the three totals and the three
\* history lists as they were
C28_CommentsIgnored ==
    [][(pc = "done" /\ pc' = "again" /\ history' # history)
          => /\ task_metrics'.state_periods = task_metrics.state_periods
             /\ task_metrics'.assignment_periods = task_metrics.assignment_periods
             /\ SameAttribution(task_metrics', task_metrics)]_vars

(* The open/closed machine, replayed over the notes in timestamp order *)

ClosesIssue(n) ==
    /\ n.system
    /\ \E w \in ClosedWords : Contains(Lower(n.body), w)
    /\ ~ \E w \in MergeWords : Contains(Lower(n.body), w)

ReopensIssue(n) ==
    /\ n.system
    /\ \E w \in ReopenWords : Contains(Lower(n.body), w)

\* the notes that switch the state, in timestamp order
Switches == SelectSeq(NotesInOrder, LAMBDA n : ClosesIssue(n) \/ ReopensIssue(n))

\* C29: the issue is Opened from created_at; each closing note switches it to
\* Closed and each reopening note to Opened at the note's timestamp, and no
\* other note changes the state: state_periods has one period more than there
\* are such notes, and each note ends one period and starts the next
C29_OpenClosedMachine ==
    Done =>
        LET sp == task_metrics.state_periods
        IN  /\ Len(sp) = Len(Switches) + 1
            /\ sp[1].state = "opened" /\ sp[1].start = task_metrics.created_at
            /\ \A i \in DOMAIN Switches :
                   /\ sp[i].end = Switches[i].created_at
                   /\ sp[i + 1].start = Switches[i].created_at
                   /\ sp[i + 1].state = IF ClosesIssue(Switches[i]) THEN "closed" ELSE "opened"

\* C29 witness: the issue is closed at 1 and reopened at 3; a note about a merge
\* that holds the word closed, at 2, changes nothing
C29_Witness ==
    /\ Done
    /\ NotesInOrder = <<Note(1, TRUE, BodyClosed), Note(2, TRUE, BodyMergedClosed),
                        Note(3, TRUE, BodyReopened)>>
    /\ task_metrics.state_periods
          = <<[state |-> "opened", start |-> 0, end |-> 1],
              [state |-> "closed", start |-> 1, end |-> 3],
              [state |-> "opened", start |-> 3, end |-> current_time]>>

(* Relabelling *)

\* the total and the history an accumulator of the main loop holds for a label
AccTimeOf(acc, l) ==
    IF l = "doing" THEN acc.cicle_time
    ELSE IF l = "review" THEN acc.review_time ELSE acc.qa_time

AccHistoryOf(acc, l) ==
    IF l = "doing" THEN acc.cicle_history
    ELSE IF l = "review" THEN acc.review_history ELSE acc.qa_history

\* the accumulator of the main loop after the first k events of merged_history
AccAfter(k) ==
    AttributionLoop(SubSeq(task_metrics.merged_history, 1, k),
                    task_metrics.state_periods, task_metrics.assignment_periods)

\* event k is an add of a tracked label, arriving while the target is assigned and
\* the issue open, and another tracked label is being tracked
IsRelabel(k, before) ==
    LET e == task_metrics.merged_history[k]
    IN  /\ IsLabel(e) /\ e.action = "add" /\ e.label.name \in TrackedLabels
        /\ before.cur_label \in TrackedLabels \ {e.label.name}
        /\ is_in_assignment_period(task_metrics.assignment_periods, e.created_at)
        /\ get_active_state_period(task_metrics.state_periods, e.created_at) # <<>>
        /\ get_active_state_period(task_metrics.state_periods, e.created_at)[1].state
               = "opened"

\* the previous label's interval ends at the event and is recorded under the
\* previous label; the new label is tracked from the event
Relabelled(e, before, after) ==
    LET entry == [start |-> before.label_start_time, end |-> e.created_at,
                  duration |-> e.created_at - before.label_start_time, event |-> e]
    IN  /\ after.cur_label = e.label.name
        /\ after.label_start_time = e.created_at
        /\ AccHistoryOf(after, before.cur_label)
               = Append(AccHistoryOf(before, before.cur_label), entry)
        /\ AccTimeOf(after, before.cur_label)
               = AccTimeOf(before, before.cur_label) + entry.duration
        /\ \E i \in DOMAIN HistoryOf(before.cur_label) :
               HistoryOf(before.cur_label)[i] = entry

\* the new label is tracked from the event
TrackedFrom(e, after) ==
    /\ after.cur_label = e.label.name
    /\ after.label_start_time = e.created_at

\* the issue was not closed strictly between two times
NotClosedBetween(lo, hi) ==
    ClosedStartsBetween(task_metrics.state_periods, lo, hi) = {}

\* C30 as stated: whenever an add of a tracked label arrives at t while a
\* different tracked label is being tracked, the target is assigned and the issue
\* open, the interval of the previous label is closed at t and recorded under the
\* previous label, and the new label is tracked from t
C30_Relabel ==
    Done =>
        \A k \in DOMAIN task_metrics.merged_history :
            IsRelabel(k, AccAfter(k - 1))
                => Relabelled(task_metrics.merged_history[k], AccAfter(k - 1), AccAfter(k))

\* C30 amended: when an add of a tracked label arrives at t while a different
\* tracked label is being tracked since s, the target is assigned and the issue
\* open, the new label is tracked from t; if s is earlier than t and the issue
\* was not closed between s and t, the interval s..t is recorded under the
\* previous label
C30_RelabelAfterStart ==
    Done =>
        \A k \in DOMAIN task_metrics.merged_history :
            IsRelabel(k, AccAfter(k - 1))
                => /\ TrackedFrom(task_metrics.merged_history[k], AccAfter(k))
                   /\ (/\ AccAfter(k - 1).label_start_time
                             < task_metrics.merged_history[k].created_at
                       /\ NotClosedBetween(AccAfter(k - 1).label_start_time,
                                           task_metrics.merged_history[k].created_at))
                       => Relabelled(task_metrics.merged_history[k],
                                     AccAfter(k - 1), AccAfter(k))

\* C30 witness: bob is assigned at 1, doing is added at 1 and review at 3: the
\* interval 1..3 is recorded under doing and review is tracked from 3
C30_Witness ==
    /\ Done
    /\ \E k \in DOMAIN task_metrics.merged_history :
           /\ IsRelabel(k, AccAfter(k - 1))
           /\ AccAfter(k - 1).cur_label = "doing"
           /\ AccAfter(k - 1).label_start_time = 1
           /\ task_metrics.merged_history[k] = LabelEvent(3, "add", "review")
    /\ task_metrics.cicle_time = 2
    /\ Len(task_metrics.cicle_history) = 1

(* Removal of a label that is not being tracked *)

\* event k removes a tracked label other than the one being tracked, while the
\* target is assigned and the issue open
IsOtherRemove(k, before) ==
    LET e == task_metrics.merged_history[k]
    IN  /\ IsLabel(e) /\ e.action = "remove" /\ e.label.name \in TrackedLabels
        /\ e.label.name # before.cur_label
        /\ is_in_assignment_period(task_metrics.assignment_periods, e.created_at)
        /\ get_active_state_period(task_metrics.state_periods, e.created_at) # <<>>
        /\ get_active_state_period(task_metrics.state_periods, e.created_at)[1].state
               = "opened"

\* C31: a remove event for a tracked label that is not the label being tracked
\* changes nothing: no interval is recorded, no total grows, and the current
\* label and its start time stay as they were
C31_OtherRemoveChangesNothing ==
    (Done /\ ConsistentTimeline) =>
        \A k \in DOMAIN task_metrics.merged_history :
            IsOtherRemove(k, AccAfter(k - 1)) => AccAfter(k) = AccAfter(k - 1)

(* A label still tracked after the last event *)

\* the end of the interval of a label tracked since s when the timeline ends:
\* end_time, clipped to the end of the assignment period containing s and to the
\* first close after s
ClippedEnd(s, end_time) ==
    Min({end_time}
        \cup {p.end : p \in Range(FirstContaining(task_metrics.assignment_periods, s))}
        \cup {p.start : p \in {q \in Range(task_metrics.state_periods) :
                                   q.state = "closed" /\ q.start > s}})

\* the label l was added once and never removed
AddedOnce(l) ==
    /\ Cardinality({i \in DOMAIN labels_history :
                       labels_history[i].label.name = l}) = 1
    /\ \A i \in DOMAIN labels_history :
           labels_history[i].label.name = l => labels_history[i].action = "add"

\* the result, given the accumulator the main loop ends with and end_time
ActiveLabelClosed(acc, end_time) ==
    acc.cur_label \in TrackedLabels =>
        LET l == acc.cur_label
            s == acc.label_start_time
            e == ClippedEnd(s, end_time)
        IN  /\ IF e > s
               THEN /\ TimeOf(l) = AccTimeOf(acc, l) + (e - s)
                    /\ Len(HistoryOf(l)) = Len(AccHistoryOf(acc, l)) + 1
                    /\ HistoryOf(l)[Len(HistoryOf(l))].start = s
                    /\ HistoryOf(l)[Len(HistoryOf(l))].end = e
               ELSE /\ TimeOf(l) = AccTimeOf(acc, l)
                    /\ HistoryOf(l) = AccHistoryOf(acc, l)
            /\ (/\ AddedOnce(l)
                /\ \A i \in DOMAIN task_metrics.state_periods :
                       task_metrics.state_periods[i].state = "opened"
                /\ e = end_time)
                => TimeOf(l) = end_time - s

\* C32: in a history GitLab can have written, a tracked label still being
\* tracked after the last event is closed against end_time clipped to the end of
\* the assignment period containing its start and to the first close after its
\* start; if the issue is open, the target still assigned and the label was added
\* once and never removed, the label's total is end_time minus its start time
C32_ActiveLabelClosed ==
    (Done /\ ConsistentTimeline) =>
        ActiveLabelClosed(AccAfter(Len(task_metrics.merged_history)),
                          EndTime(task_metrics.closed_at, current_time))

(* An assignment still open after the last event *)

\* the final period of assignment_periods starts where the open assignment
\* started and ends at end_time
FinalPeriodEndsAt(assignment_start, end_time) ==
    LET ap == task_metrics.assignment_periods
    IN  /\ ap # <<>>
        /\ ap[Len(ap)] = [start |-> assignment_start, end |-> end_time]

\* C33: an assignment of the target that is still open after the last event of
\* the timeline gives a final assignment period that ends at end_time: the
\* issue's closed_at, or the current time when the issue has none
C33_OpenAssignmentEndsAtEndTime ==
    Done =>
        /\ AssignmentLoop(task_metrics.merged_history, username).assignment_start # NoneTime
            => FinalPeriodEndsAt(
                   AssignmentLoop(task_metrics.merged_history, username).assignment_start,
                   IF task_metrics.closed_at # NoneTime THEN task_metrics.closed_at
                   ELSE current_time)
        /\ (ConsistentTimeline /\ AssignedAfter(Len(NotesInOrder)))
            => /\ task_metrics.assignment_periods # <<>>
               /\ task_metrics.assignment_periods[Len(task_metrics.assignment_periods)].end
                      = (IF task_metrics.closed_at # NoneTime THEN task_metrics.closed_at
                         ELSE current_time)

\* C33 witness: bob is assigned at 1 and still is after the last event; the issue
\* was closed at 3, and the assignment period is 1..3
C33_Witness ==
    /\ Done /\ ConsistentTimeline
    /\ AssignedAfter(Len(NotesInOrder))
    /\ task_metrics.closed_at = 3
    /\ task_metrics.assignment_periods = <<[start |-> 1, end |-> 3]>>

\* C33 witness: the issue is not closed, and the assignment period ends now
C33_WitnessNow ==
    /\ Done /\ ConsistentTimeline
    /\ AssignedAfter(Len(NotesInOrder))
    /\ task_metrics.closed_at = NoneTime
    /\ task_metrics.assignment_periods = <<[start |-> 2, end |-> current_time]>>

(* A username that starts with the target's *)

\* the string p is a proper prefix of the string s
ProperPrefix(p, s) == Len(p) < Len(s) /\ SubSeq(s, 1, Len(p)) = p

\* a system note that assigns the issue to a user whose username starts with the
\* target's and is longer
AssignsLongerName(event) ==
    \E u \in Usernames : ProperPrefix(username, u) /\ AssignsTo(event, u)

\* C34: a note that assigns the issue to a user whose username only starts with
\* the target's starts no assignment period of the target, and notes of this
\* kind alone do not make check_task_assignee answer True for the target
C34_LongerNameNotTarget ==
    Done =>
        /\ \A k \in DOMAIN task_metrics.merged_history :
               (AssignsLongerName(task_metrics.merged_history[k])
                    /\ StartedBy(k - 1) = NoneTime)
                   => StartedBy(k) = NoneTime
        /\ (\A k \in DOMAIN history : AssignsLongerName(history[k]))
               => ~check_task_assignee(username, history)

(* The histories and the totals *)

\* the sum of the durations of a history list
RECURSIVE SumOfDurations(_)
SumOfDurations(h) ==
    IF h = <<>> THEN 0 ELSE h[Len(h)].duration + SumOfDurations(SubSeq(h, 1, Len(h) - 1))

\* C35: in every result of calculate_metrics each history entry ends after it
\* starts and has the duration end minus start, and each of cicle_time,
\* review_time and qa_time is the sum of the durations of its history list
C35_HistoriesAndTotals ==
    Done =>
        \A l \in TrackedLabels :
            /\ \A i \in DOMAIN HistoryOf(l) :
                   /\ HistoryOf(l)[i].end > HistoryOf(l)[i].start
                   /\ HistoryOf(l)[i].duration = HistoryOf(l)[i].end - HistoryOf(l)[i].start
            /\ TimeOf(l) = SumOfDurations(HistoryOf(l))

\* C35 witness: doing is tracked from 1 to 2 and review from 2 to the end at 4:
\* each history has its entry, cicle_time is 1 and review_time is 2
C35_Witness ==
    /\ Done /\ ConsistentTimeline
    /\ Len(task_metrics.cicle_history) = 1
    /\ task_metrics.cicle_history[1].start = 1 /\ task_metrics.cicle_history[1].end = 2
    /\ task_metrics.cicle_history[1].duration = 1
    /\ Len(task_metrics.review_history) = 1
    /\ task_metrics.review_history[1].start = 2 /\ task_metrics.review_history[1].end = 4
    /\ task_metrics.cicle_time = 1 /\ task_metrics.review_time = 2

(* get_all_users *)

\* C36: get_all_users calls get_users with the page numbers 1, 2, 3, ... in
\* order; when no request fails it stops at the first empty page and returns
\* every user of the server once
C36_PagesFromOne ==
    /\ \A i \in DOMAIN pages_asked : pages_asked[i] = i
    /\ (upos = "returned" /\ directory.fault_page = 0 - 1)
           => all_users = directory.items

(* Metrics of a selected user *)

\* C37: get_user_metrics is called only for a username other than 'Unknown' and
\* a user id that select_user stored earlier, and a Metrics message that finds no
\* such selection is answered with 'Cannot get user information' and calls
\* nothing
C37_MetricsOnlyForSelected ==
    /\ [](\A i \in DOMAIN metrics_calls :
             /\ <<metrics_calls[i].username, metrics_calls[i].user_id>> \in selections
             /\ metrics_calls[i].username # "Unknown"
             /\ metrics_calls[i].user_id # 0)
    /\ [][(Len(replies') > Len(replies) /\ replies'[Len(replies')].text = "Metrics")
             => IF current_user \in {None, "Unknown"} \/ current_user_id = 0
                THEN /\ replies'[Len(replies')].reply = "Cannot get user information"
                     /\ metrics_calls' = metrics_calls
                ELSE metrics_calls' = Append(metrics_calls, [username |-> current_user,
                                                            user_id |-> current_user_id])]_vars

\* C37 witness: a user was selected whose username could not be fetched, Metrics
\* was refused, then bob was selected and Metrics was started for him
C37_Witness ==
    /\ Len(replies) = 5
    /\ replies[3].reply = "Cannot get user information"
    /\ metrics_calls = <<[username |-> "bob", user_id |-> 1]>>
    /\ <<"Unknown", 1>> \in selections

(* The pages of the workers list *)

\* C38: while the workers list is open, 1 <= current_page <= total_pages, and the
\* users shown last are the slice of the stored list for current_page
C38_PageInRange ==
    fsm_state = "viewing_users" =>
        /\ state_data # <<>>
        /\ 1 <= state_data[1].current_page
        /\ state_data[1].current_page <= state_data[1].total_pages
        /\ shown_users # <<>>
        /\ \A i \in DOMAIN shown_users :
               shown_users[i]
                   = state_data[1].users[(state_data[1].current_page - 1)
                                             * state_data[1].page_size + i]
        /\ Len(shown_users)
               = (IF state_data[1].current_page * state_data[1].page_size
                        <= Len(state_data[1].users)
                  THEN state_data[1].page_size
                  ELSE Len(state_data[1].users)
                          - (state_data[1].current_page - 1) * state_data[1].page_size)

\* C38 witness: seventeen users, Next pressed three times: the third and last page
\* holds the seventeenth user alone
C38_Witness ==
    /\ fsm_state = "viewing_users"
    /\ answered = 4
    /\ Len(state_data[1].users) = 17
    /\ state_data[1].current_page = 3 /\ state_data[1].total_pages = 3
    /\ shown_users = <<[id |-> 17]>>

(* The session of the singleton *)

\* C39: under every interleaving of API calls and calls of close(), every request
\* is made on a session that is open at that moment, and an API call that starts
\* when the session is closed creates a new one
C39_RequestsOnOpenSession ==
    /\ [](\A r \in attempts : r.open)
    /\ [][\A c \in Callers :
             (callers[c].at = "idle" /\ callers'[c].at = "awaiting" /\ session.closed)
                 => (session'.id = session.id + 1 /\ ~session'.closed)]_vars

=============================================================================
